---- MODULE Spec2Model ----
(***************************************************************************)
(* Model of the softArch generation pipeline                               *)
(* (ProjectGenerator.generateCompleteProject and the oracle client's       *)
(* architecture repair), with the output directory, the recovery file and  *)
(* the process being killed and re-invoked.                                *)
(*                                                                         *)
(* Specifications:                                                         *)
(*   Spec         generateCompleteProject on one output directory          *)
(*   ClientSpec   the operations of one oracle client (DeepseekAgent)      *)
(*   CleanerSpec  _cleanMarkdownDelimiters on the replies of the LLM       *)
(*   DiagramSpec  saveDiagram and findDiagramByName on one collection      *)
(*   SpliceSpec   the globalQuery splice of app.js                         *)
(*   WebhookSpec  generateWebhook and its splices of app.js and .env       *)
(*   ConfigSpec   saveProjectConfiguration and loadProjectConfiguration    *)
(*   ResumeSpec   Spec on a directory holding a foreign .recovery.json     *)
(*   BackendSpec  the per-file dispatch of generateBackend                 *)
(*   DrawSpec     generateDiagram                                          *)
(*   DefaultSpec  the default architecture of a description                *)
(*   WrapSpec     the template wrappers and their marker                   *)
(*   RegenerateSpec  generateFromSaved, regenerateProjectFromDiagram       *)
(*   LiveSpec     Spec with the continuation of a run weakly fair          *)
(* Each of them leaves the variables of the others at rest.                *)
(*                                                                         *)
(* Strings are sequences of one-character strings, so that the substring   *)
(* tests the code makes on paths (String.prototype.includes) are computed  *)
(* and not assumed.  A character outside the lexer's alphabet is written   *)
(* as the name of its code point ("U+1F527").                              *)
(*                                                                         *)
(* Environment: the output directory is the cooperative local filesystem   *)
(* of spec.md section 1: reads, writes and the removal of .recovery.json   *)
(* and the creation of folders succeed.  The LLM requests, the writing of  *)
(* a generated file, the diagram repository and the ZIP stream may fail,   *)
(* and the process may be killed at any suspension point.                  *)
(***************************************************************************)
EXTENDS Naturals, Sequences, FiniteSets, TLC

(***************************************************************************)
(* Bounds of the model                                                     *)
(***************************************************************************)
\* invocations of generateCompleteProject on the same output directory
MaxRuns == 2
\* collaborator failures (LLM, file write, repository, ZIP) over all runs
MaxFaults == 1
\* pieces an LLM reply is put together from
MaxSegments == 4

(***************************************************************************)
(* JavaScript values and string primitives                                 *)
(***************************************************************************)
\* undefined and null where a string is expected
Undefined == "undefined"
Null == "null"
\* null where an object is expected; an absent property of an object is a
\* field the record does not have
NoObject == [null |-> TRUE]

UpperCaseLetters ==
  <<"A","B","C","D","E","F","G","H","I","J","K","L","M",
    "N","O","P","Q","R","S","T","U","V","W","X","Y","Z">>
LowerCaseLetters ==
  <<"a","b","c","d","e","f","g","h","i","j","k","l","m",
    "n","o","p","q","r","s","t","u","v","w","x","y","z">>

\* String.prototype.toLowerCase, one character
LowerChar(c) ==
  IF \E k \in 1..26 : UpperCaseLetters[k] = c
    THEN LowerCaseLetters[CHOOSE k \in 1..26 : UpperCaseLetters[k] = c]
    ELSE c

\* String.prototype.toLowerCase
ToLowerCase(s) == [k \in 1..Len(s) |-> LowerChar(s[k])]

\* String.prototype.includes
Includes(s, t) ==
  \E k \in 1..(Len(s) + 1) :
    /\ k + Len(t) - 1 <= Len(s)
    /\ SubSeq(s, k, k + Len(t) - 1) = t

\* the elements of a sequence
Range(seq) == {seq[k] : k \in 1..Len(seq)}

\* Array.prototype.filter over the positions of a sequence: the positions
\* (1-based) of the elements that pass the test, in their order; passing is
\* the set of the elements that pass
FilterIndex(seq, passing) ==
  SelectSeq([k \in 1..Len(seq) |-> k], LAMBDA k : seq[k] \in passing)

(***************************************************************************)
(* Path classification (projectGenerator.js)                               *)
(***************************************************************************)
SlashModels == <<"/","m","o","d","e","l","s","/">>
SlashControllers == <<"/","c","o","n","t","r","o","l","l","e","r","s","/">>
SlashRoutes == <<"/","r","o","u","t","e","s","/">>
BackslashModels == <<"\\","m","o","d","e","l","s","\\">>
BackslashControllers == <<"\\","c","o","n","t","r","o","l","l","e","r","s","\\">>
BackslashRoutes == <<"\\","r","o","u","t","e","s","\\">>

\* _getFileTypeFromPath
_getFileTypeFromPath(filePath) ==
  LET normalizedPath == ToLowerCase(filePath) IN
  IF Includes(normalizedPath, SlashModels) \/ Includes(normalizedPath, BackslashModels)
    THEN "model"
  ELSE IF Includes(normalizedPath, SlashControllers)
          \/ Includes(normalizedPath, BackslashControllers)
    THEN "controller"
  ELSE IF Includes(normalizedPath, SlashRoutes) \/ Includes(normalizedPath, BackslashRoutes)
    THEN "route"
  ELSE Null

ConfigSlash == <<"c","o","n","f","i","g","/">>
PackageJson == <<"p","a","c","k","a","g","e",".","j","s","o","n">>
DotEnv == <<".","e","n","v">>
AppJs == <<"a","p","p",".","j","s">>
MiddlewareSlash == <<"m","i","d","d","l","e","w","a","r","e","/">>

\* the filter of configFiles
IsConfigFile(file) ==
  \/ Includes(file.path, ConfigSlash)
  \/ Includes(file.path, PackageJson)
  \/ Includes(file.path, DotEnv)
  \/ Includes(file.path, AppJs)
  \/ Includes(file.path, MiddlewareSlash)

\* the five category lists of generateCompleteProject, as positions in
\* architecture.files (the code keeps references to the file objects)
configFiles(arch) == FilterIndex(arch.files, {f \in Range(arch.files) : IsConfigFile(f)})
modelFilesToCreate(arch) ==
  FilterIndex(arch.files,
              {f \in Range(arch.files) : _getFileTypeFromPath(f.path) = "model"})
controllerFiles(arch) ==
  FilterIndex(arch.files,
              {f \in Range(arch.files) : _getFileTypeFromPath(f.path) = "controller"})
routeFiles(arch) ==
  FilterIndex(arch.files,
              {f \in Range(arch.files) : _getFileTypeFromPath(f.path) = "route"})
remainingFiles(arch) ==
  SelectSeq([k \in 1..Len(arch.files) |-> k],
            LAMBDA k : /\ k \notin Range(configFiles(arch))
                       /\ k \notin Range(modelFilesToCreate(arch))
                       /\ k \notin Range(controllerFiles(arch))
                       /\ k \notin Range(routeFiles(arch)))

\* the five lists in the order in which generateCompleteProject walks them
Categorize(arch) ==
  << configFiles(arch), modelFilesToCreate(arch), controllerFiles(arch),
     routeFiles(arch), remainingFiles(arch) >>

\* the categoryName arguments of the five generateFileCategory calls
CategoryNames ==
  << <<"U+1F527"," ","G","e","n","e","r","a","n","d","o"," ","a","r","c","h","i","v","o","s",
       " ","d","e"," ","c","o","n","f","i","g","u","r","a","c","i","ó","n">>,
     <<"U+1F4E6"," ","G","e","n","e","r","a","n","d","o"," ","m","o","d","e","l","o","s">>,
     <<"U+1F3AE"," ","G","e","n","e","r","a","n","d","o"," ","c","o","n","t","r","o","l","a",
       "d","o","r","e","s">>,
     <<"U+1F6E3","U+FE0F"," ","G","e","n","e","r","a","n","d","o"," ","r","u","t","a","s">>,
     <<"U+1F4C4"," ","G","e","n","e","r","a","n","d","o"," ","a","r","c","h","i","v","o","s",
       " ","a","d","i","c","i","o","n","a","l","e","s">> >>

\* the words the resume code looks for in currentCategory, in the order of
\* its else-if chain
CategoryKeywords ==
  << <<"c","o","n","f","i","g","u","r","a","c","i","ó","n">>,
     <<"m","o","d","e","l","o","s">>,
     <<"c","o","n","t","r","o","l","a","d","o","r","e","s">>,
     <<"r","u","t","a","s">>,
     <<"a","d","i","c","i","o","n","a","l","e","s">> >>

\* "Determinar desde donde continuar": the five start offsets (0-based)
StartOffsets(continueGen, recState) ==
  LET zero == <<0, 0, 0, 0, 0>> IN
  IF continueGen /\ recState # NoObject
    THEN IF "currentCategory" \in DOMAIN recState
           THEN IF \E k \in 1..5 : Includes(recState.currentCategory, CategoryKeywords[k])
                  THEN LET hit == CHOOSE k \in 1..5 :
                                    /\ Includes(recState.currentCategory, CategoryKeywords[k])
                                    /\ \A j \in 1..(k - 1) :
                                         ~Includes(recState.currentCategory, CategoryKeywords[j])
                       IN [zero EXCEPT ![hit] = recState.currentCategoryIndex + 1]
                  ELSE zero
           ELSE zero
    ELSE zero

(***************************************************************************)
(* Architectures: the repairer of the oracle client and the default        *)
(* architecture of the pipeline                                            *)
(***************************************************************************)
Folder(p) == [path |-> p]
File(p, tpl, kind) == [path |-> p, useTemplate |-> tpl, templateType |-> kind]

SlashModelsFolder == <<"/","m","o","d","e","l","s">>
SlashControllersFolder == <<"/","c","o","n","t","r","o","l","l","e","r","s">>
SlashRoutesFolder == <<"/","r","o","u","t","e","s">>
SlashConfigFolder == <<"/","c","o","n","f","i","g">>
ModelsFolder == <<"m","o","d","e","l","s">>
ControllersFolder == <<"c","o","n","t","r","o","l","l","e","r","s">>
RoutesFolder == <<"r","o","u","t","e","s">>
ConfigFolder == <<"c","o","n","f","i","g">>
IndexJs == <<"i","n","d","e","x",".","j","s">>
ServerJs == <<"s","e","r","v","e","r",".","j","s">>
DotEnvExample == <<".","e","n","v",".","e","x","a","m","p","l","e">>
DotJs == <<".","j","s">>
ControllerJs == <<"C","o","n","t","r","o","l","l","e","r",".","j","s">>
RoutesJs == <<"R","o","u","t","e","s",".","j","s">>

\* a failed LLM request (the promise of chat.completions.create rejects)
TransportError == "TransportError"

\* the three files validateArchitecture appends for one entity
EntityFiles(entity) ==
  LET entityName == ToLowerCase(entity) IN
  << File(ModelsFolder \o <<"/">> \o entityName \o DotJs, TRUE, "model"),
     File(ControllersFolder \o <<"/">> \o entityName \o ControllerJs, TRUE, "controller"),
     File(RoutesFolder \o <<"/">> \o entityName \o RoutesJs, TRUE, "route") >>

RECURSIVE AllEntityFiles(_)
AllEntityFiles(entities) ==
  IF entities = <<>> THEN <<>>
  ELSE EntityFiles(Head(entities)) \o AllEntityFiles(Tail(entities))

\* validateArchitecture putting the models folder in front of the folders it
\* was handed, whatever they are
validateArchitectureInFront(architecture, entitiesReply) ==
  [architecture EXCEPT !.folders = <<Folder(ModelsFolder)>> \o architecture.folders]

\* validateArchitecture(architecture, description); entitiesReply is the
\* outcome of its LLM request: TransportError, or the entity names parsed
\* from the reply (<<>> when the reply holds no JSON array)
validateArchitecture(architecture, entitiesReply) ==
  LET hasModels == \E f \in Range(architecture.folders) : Includes(f.path, SlashModelsFolder)
      hasControllers ==
        \E f \in Range(architecture.folders) : Includes(f.path, SlashControllersFolder)
      hasRoutes == \E f \in Range(architecture.folders) : Includes(f.path, SlashRoutesFolder)
      hasConfig == \E f \in Range(architecture.folders) : Includes(f.path, SlashConfigFolder)
      folders1 ==
        architecture.folders
          \o (IF hasModels THEN <<>> ELSE <<Folder(ModelsFolder)>>)
          \o (IF hasControllers THEN <<>> ELSE <<Folder(ControllersFolder)>>)
          \o (IF hasRoutes THEN <<>> ELSE <<Folder(RoutesFolder)>>)
          \o (IF hasConfig THEN <<>> ELSE <<Folder(ConfigFolder)>>)
      files1 == architecture.files \o AllEntityFiles(entitiesReply)
      hasMainFile ==
        \E f \in Range(files1) : f.path = AppJs \/ f.path = IndexJs \/ f.path = ServerJs
      files2 == files1 \o (IF hasMainFile THEN <<>> ELSE <<File(AppJs, TRUE, "main")>>)
      hasPackageJson == \E f \in Range(files2) : f.path = PackageJson
      files3 ==
        files2 \o (IF hasPackageJson THEN <<>> ELSE <<File(PackageJson, TRUE, "config")>>)
      hasEnv == \E f \in Range(files3) : f.path = DotEnvExample \/ f.path = DotEnv
      files4 == files3 \o (IF hasEnv THEN <<>> ELSE <<File(DotEnvExample, TRUE, "config")>>)
  IN
  IF hasModels /\ hasControllers /\ hasRoutes /\ hasConfig
    THEN architecture
  ELSE IF entitiesReply = TransportError
    THEN [architecture EXCEPT !.folders = folders1]
  ELSE [architecture EXCEPT !.folders = folders1, !.files = files4]

\* the table of _detectProjectType
ProjectTypes ==
  << [type |-> "ecommerce",
      keywords |-> << <<"e","c","o","m","m","e","r","c","e">>,
                    <<"t","i","e","n","d","a">>,
                    <<"v","e","n","t","a">>,
                    <<"p","r","o","d","u","c","t","o">>,
                    <<"c","a","r","r","i","t","o">>,
                    <<"c","o","m","p","r","a">> >>,
      entities |-> << <<"P","r","o","d","u","c","t","o">>,
                    <<"U","s","u","a","r","i","o">>,
                    <<"P","e","d","i","d","o">>,
                    <<"C","a","t","e","g","o","r","i","a">> >>],
     [type |-> "blog",
      keywords |-> << <<"b","l","o","g">>,
                    <<"a","r","t","í","c","u","l","o">>,
                    <<"p","o","s","t">>,
                    <<"c","o","m","e","n","t","a","r","i","o">>,
                    <<"a","u","t","o","r">> >>,
      entities |-> << <<"A","r","t","i","c","u","l","o">>,
                    <<"U","s","u","a","r","i","o">>,
                    <<"C","o","m","e","n","t","a","r","i","o">>,
                    <<"C","a","t","e","g","o","r","i","a">> >>],
     [type |-> "cms",
      keywords |-> << <<"c","m","s">>,
                    <<"c","o","n","t","e","n","i","d","o">>,
                    <<"p","á","g","i","n","a">>,
                    <<"a","d","m","i","n","i","s","t","r","a","c","i","ó","n">> >>,
      entities |-> << <<"P","a","g","i","n","a">>,
                    <<"U","s","u","a","r","i","o">>,
                    <<"M","e","d","i","a">>,
                    <<"S","e","c","c","i","o","n">> >>],
     [type |-> "booking",
      keywords |-> << <<"r","e","s","e","r","v","a">>,
                    <<"h","o","t","e","l">>,
                    <<"v","i","a","j","e">>,
                    <<"h","a","b","i","t","a","c","i","ó","n">>,
                    <<"r","e","s","e","r","v","a","c","i","ó","n">> >>,
      entities |-> << <<"R","e","s","e","r","v","a">>,
                    <<"U","s","u","a","r","i","o">>,
                    <<"H","a","b","i","t","a","c","i","o","n">>,
                    <<"H","o","t","e","l">> >>],
     [type |-> "inventory",
      keywords |-> << <<"i","n","v","e","n","t","a","r","i","o">>,
                    <<"s","t","o","c","k">>,
                    <<"a","l","m","a","c","é","n">>,
                    <<"p","r","o","d","u","c","t","o">> >>,
      entities |-> << <<"P","r","o","d","u","c","t","o">>,
                    <<"C","a","t","e","g","o","r","i","a">>,
                    <<"P","r","o","v","e","e","d","o","r">>,
                    <<"S","t","o","c","k">> >>] >>

\* _detectProjectType: the first type one of whose keywords the lower-cased
\* description includes, or null
_detectProjectType(description) ==
  LET desc == ToLowerCase(description)
      Matches(k) == \E w \in Range(ProjectTypes[k].keywords) : Includes(desc, w)
  IN
  IF \E k \in 1..Len(ProjectTypes) : Matches(k)
    THEN ProjectTypes[CHOOSE k \in 1..Len(ProjectTypes) :
                        Matches(k) /\ \A j \in 1..(k - 1) : ~Matches(j)]
    ELSE NoObject

SrcModelsSlash == <<"s","r","c","/","m","o","d","e","l","s","/">>
SrcControllersSlash == <<"s","r","c","/","c","o","n","t","r","o","l","l","e","r","s","/">>
SrcRoutesSlash == <<"s","r","c","/","r","o","u","t","e","s","/">>
GlobalQueryJs == <<"g","l","o","b","a","l","Q","u","e","r","y",".","j","s">>
GlobalDashQueryJs == <<"g","l","o","b","a","l","-","q","u","e","r","y",".","j","s">>
\* the name used when no project type is detected
ItemEntity == <<"I","t","e","m">>

\* the three files _getDefaultArchitecture pushes for one entity
DefaultEntityFiles(entity) ==
  << File(SrcModelsSlash \o ToLowerCase(entity) \o DotJs, TRUE, "model"),
     File(SrcControllersSlash \o ToLowerCase(entity) \o ControllerJs, TRUE, "controller"),
     File(SrcRoutesSlash \o ToLowerCase(entity) \o RoutesJs, TRUE, "route") >>

RECURSIVE AllDefaultEntityFiles(_)
AllDefaultEntityFiles(entities) ==
  IF entities = <<>> THEN <<>>
  ELSE DefaultEntityFiles(Head(entities)) \o AllDefaultEntityFiles(Tail(entities))

\* _getDefaultArchitecture(description, options)
_getDefaultArchitecture(description, opts) ==
  LET projectType == _detectProjectType(description) IN
  [ folders |->
      << Folder(<<"s","r","c">>),
         Folder(<<"s","r","c","/","m","o","d","e","l","s">>),
         Folder(<<"s","r","c","/","c","o","n","t","r","o","l","l","e","r","s">>),
         Folder(<<"s","r","c","/","r","o","u","t","e","s">>),
         Folder(<<"s","r","c","/","m","i","d","d","l","e","w","a","r","e","s">>),
         Folder(<<"s","r","c","/","c","o","n","f","i","g">>),
         Folder(<<"s","r","c","/","u","t","i","l","s">>) >>,
    files |->
      << File(PackageJson, TRUE, "config"),
         File(DotEnvExample, TRUE, "config"),
         File(<<"s","r","c","/","a","p","p",".","j","s">>, TRUE, "main"),
         File(<<"s","r","c","/","s","e","r","v","e","r",".","j","s">>, TRUE, "config"),
         File(<<"s","r","c","/","c","o","n","f","i","g","/","d","a","t","a","b","a","s","e",".","j","s">>,
              TRUE, "config"),
         File(<<"s","r","c","/","m","i","d","d","l","e","w","a","r","e","s","/","a","u","t","h","M","i","d","d","l","e","w","a","r","e",".","j","s">>,
              TRUE, "middleware"),
         File(<<"s","r","c","/","m","i","d","d","l","e","w","a","r","e","s","/","e","r","r","o","r","M","i","d","d","l","e","w","a","r","e",".","j","s">>,
              TRUE, "middleware"),
         File(<<"R","E","A","D","M","E",".","m","d">>, FALSE, Undefined) >>
      \o (IF projectType # NoObject
            THEN AllDefaultEntityFiles(projectType.entities)
            ELSE DefaultEntityFiles(ItemEntity))
      \o (IF opts.includeGlobalQuery
            THEN <<File(SrcRoutesSlash \o GlobalQueryJs, TRUE, "route")>>
            ELSE <<>>) ]

(***************************************************************************)
(* Inputs: the arguments of the command and the replies of the oracle      *)
(***************************************************************************)
\* the descriptions the command is invoked with
Descriptions ==
  { <<"A","P","I"," ","d","e"," ","n","o","t","a","s">>,
    <<"U","n"," ","B","l","o","g">> }

\* the options the command is invoked with (absent options are false)
OptionSets ==
  [continueOnError : BOOLEAN, includeGlobalQuery : BOOLEAN, generateZip : BOOLEAN]

\* well-formed architectures the oracle may reply with
\*   a complete MVC layout under src/
ArchLayered ==
  [ folders |-> << Folder(<<"s","r","c","/","m","o","d","e","l","s">>),
                   Folder(<<"s","r","c","/","c","o","n","t","r","o","l","l","e","r","s">>),
                   Folder(<<"s","r","c","/","r","o","u","t","e","s">>),
                   Folder(<<"s","r","c","/","c","o","n","f","i","g">>) >>,
    files |-> << File(<<"s","r","c","/","m","o","d","e","l","s","/","u","s","e","r",".","j","s">>,
                      TRUE, "model"),
                 File(<<"s","r","c","/","c","o","n","f","i","g","/","d","b",".","j","s">>,
                      FALSE, "config"),
                 File(<<"s","r","c","/","m","o","d","e","l","s","/","p","o","s","t",".","j","s">>,
                      TRUE, "model"),
                 File(<<"s","r","c","/","r","o","u","t","e","s","/","u","s","e","r","R","o","u","t","e","s",".","j","s">>, TRUE, "route"),
                 File(<<"R","E","A","D","M","E",".","m","d">>, FALSE, Undefined),
                 File(<<"s","r","c","/","c","o","n","t","r","o","l","l","e","r","s","/","u","s","e","r","C","o","n","t","r","o","l","l","e","r",".","j","s">>, TRUE, "controller") >> ]
\*   a model of the entity "app": its path matches the configuration filter
\*   and the model classifier
ArchAppEntity ==
  [ folders |-> << Folder(<<"s","r","c","/","m","o","d","e","l","s">>),
                   Folder(<<"s","r","c","/","c","o","n","t","r","o","l","l","e","r","s">>),
                   Folder(<<"s","r","c","/","r","o","u","t","e","s">>),
                   Folder(<<"s","r","c","/","c","o","n","f","i","g">>) >>,
    files |-> << File(<<"s","r","c","/","m","o","d","e","l","s","/","a","p","p",".","j","s">>, TRUE, "model"),
                 File(<<"s","r","c","/","i","n","d","e","x",".","j","s">>, FALSE, "main") >> ]
\*   no folders: the repairer completes it
ArchBare ==
  [ folders |-> << >>,
    files |-> << File(<<"R","E","A","D","M","E",".","m","d">>, FALSE, Undefined) >> ]
\*   no files at all
ArchEmpty ==
  [ folders |-> << Folder(<<"s","r","c","/","m","o","d","e","l","s">>),
                   Folder(<<"s","r","c","/","c","o","n","t","r","o","l","l","e","r","s">>),
                   Folder(<<"s","r","c","/","r","o","u","t","e","s">>),
                   Folder(<<"s","r","c","/","c","o","n","f","i","g">>) >>,
    files |-> << >> ]

ArchPool == {ArchLayered, ArchAppEntity, ArchBare, ArchEmpty}

\* outcomes of the entity-extraction request of validateArchitecture
EntityReplies == { <<>>, << <<"U","s","e","r">> >> }

\* error.message of a failed _generateFile
ErrorMessages == {"LLM request failed", "write failed"}

\* routes/globalQuery.js, the file of the globalQuery post-phase
RoutesGlobalQueryJs ==
  <<"r","o","u","t","e","s","/","g","l","o","b","a","l","Q","u","e","r","y",".","j","s">>

(***************************************************************************)
(* State                                                                   *)
(***************************************************************************)
VARIABLES
  \* the command's arguments, the same at every invocation
  description, options,
  \* the output directory
  recoveryFile,        \* the parsed content of .recovery.json, or NoObject
  diskFiles,           \* paths of the generated files present
  diskFolders,         \* paths of the folders present
  diagramJson,         \* the parsed content of diagram.json, or NoObject
  zipFile,             \* what the archive holds, or NoObject
  repository,          \* whether the diagram repository holds the record
  \* the running invocation of generateCompleteProject
  pc, recoveryState, architecture, fileCounter, continueGeneration,
  generatedFiles, categories, starts, success, cat, i, error,
  diagram, diagramId, zipPath, result,
  \* history
  runs,                \* invocations so far
  faults,              \* collaborator failures so far
  attempts,            \* <<category, index>> of each _generateFile call of this run
  runFaults,           \* the collaborator failures of this run
  stopped,             \* an earlier invocation stopped part-way
  \* one oracle client (DeepseekAgent)
  codeCache,           \* this.codeCache: a function from cache keys to code
  requests,            \* LLM requests issued so far
  call,                \* the operation that completed last, or NoObject
  \* _cleanMarkdownDelimiters on its own
  content,             \* the trimmed content of an LLM reply
  cleaned,             \* what _cleanMarkdownDelimiters returned for it, or Null
  \* the diagram repository (the ProjectDiagram collection)
  collection,          \* the stored documents, in natural order
  saved,               \* the last saveDiagram: its argument, what it returned, and
                       \* the findDiagramByName calls since
  \* the saved designs (saved-projects/<name>.json)
  savedProjects,       \* a function from project names to the parsed content of the file
  config,              \* the last saveProjectConfiguration: its arguments, what it
                       \* returned, and what loadProjectConfiguration returned since
  \* app.js under the globalQuery splice
  appContent,          \* the content of app.js
  appBefore,           \* its content before the first splice
  splices,             \* how often the splice ran
  \* generateDiagram
  drawn,               \* the last generateDiagram: its architecture and the diagram
  \* the webhooks of a generated project
  envFile,             \* .env.example: whether it exists, and its content
  webhookFiles,        \* the files under routes/webhooks
  webhooks,            \* the generateWebhook calls so far, with their outcome
  \* generateBackend
  dispatched,          \* the last file of the loop of generateBackend: the options,
                       \* the file, and how its code was produced
  \* the template processor
  wrapped,             \* the last call of a template wrapper: the rendered template,
                       \* the reply to the fragment request, and what it returned
  \* generateFromSaved and regenerateProjectFromDiagram
  regenerations        \* the regenerations so far: the record used, whether an
                       \* architecture was requested, and the files written

args == <<description, options>>
disk == <<recoveryFile, diskFiles, diskFolders, diagramJson, zipFile, repository>>
locals == <<recoveryState, architecture, fileCounter, continueGeneration,
            generatedFiles, categories, starts, success, cat, i, error,
            diagram, diagramId, zipPath, result>>
history == <<runs, faults, attempts, runFaults, stopped>>
pipeline == <<args, disk, pc, locals, history>>
client == <<codeCache, requests, call>>
cleaner == <<content, cleaned>>
diagrams == <<collection, saved, savedProjects, config, drawn>>
splicer == <<appContent, appBefore, splices, envFile, webhookFiles, webhooks>>
backend == <<dispatched, wrapped, regenerations>>
vars == <<pipeline, client, cleaner, diagrams, splicer, backend>>

\* a fresh oracle client
ClientInit ==
  /\ codeCache = <<>>
  /\ requests = 0
  /\ call = NoObject

\* no reply has been cleaned
CleanerIdle ==
  /\ content = <<>>
  /\ cleaned = Null

\* an empty collection and no saved design, nothing saved or looked up
DiagramsInit ==
  /\ collection = <<>>
  /\ saved = [n |-> 0, record |-> NoObject, returned |-> NoObject, found |-> NoObject]
  /\ savedProjects = <<>>
  /\ config = [n |-> 0, given |-> NoObject, returned |-> NoObject, loaded |-> NoObject]
  /\ drawn = [n |-> 0]

\* no app.js at hand
SplicerIdle ==
  /\ appContent = <<>>
  /\ appBefore = <<>>
  /\ splices = 0
  /\ envFile = [exists |-> FALSE, content |-> <<>>]
  /\ webhookFiles = {}
  /\ webhooks = <<>>

\* no run yet: nothing generated, no local of a run set
PipelineStart ==
  /\ dispatched = [n |-> 0]
  /\ wrapped = [n |-> 0]
  /\ regenerations = <<>>
  /\ diskFiles = {}
  /\ diskFolders = {}
  /\ diagramJson = NoObject
  /\ zipFile = NoObject
  /\ repository = FALSE
  /\ pc = "idle"
  /\ recoveryState = NoObject
  /\ architecture = NoObject
  /\ fileCounter = 0
  /\ continueGeneration = FALSE
  /\ generatedFiles = <<>>
  /\ categories = <<>>
  /\ starts = <<>>
  /\ success = TRUE
  /\ cat = 0
  /\ i = 0
  /\ error = Null
  /\ diagram = Null
  /\ diagramId = Null
  /\ zipPath = Null
  /\ result = NoObject
  /\ runs = 0
  /\ faults = 0
  /\ attempts = <<>>
  /\ runFaults = {}
  /\ stopped = FALSE

\* the state before the first invocation: an empty output directory
PipelineInit ==
  /\ recoveryFile = NoObject
  /\ PipelineStart

\* the pipeline at rest, for the specifications of the other components
NoOptions ==
  [continueOnError |-> FALSE, includeGlobalQuery |-> FALSE, generateZip |-> FALSE]

PipelineIdle ==
  /\ description = <<>>
  /\ options = NoOptions
  /\ PipelineInit

Init ==
  /\ description \in Descriptions
  /\ options \in OptionSets
  /\ PipelineInit
  /\ ClientInit
  /\ CleanerIdle
  /\ DiagramsInit
  /\ SplicerIdle

(***************************************************************************)
(* generateCompleteProject                                                 *)
(***************************************************************************)
\* the fields every state object handed to _saveRecoveryState has
RecoveryRecord(phase) ==
  [ phase |-> phase,
    architecture |-> architecture,
    fileCounter |-> fileCounter,
    totalFiles |-> Len(architecture.files),
    generatedFiles |-> generatedFiles ]

\* the state object saved after files[index] of a category
FileRecord(category, index) ==
  RecoveryRecord("generating_files")
    @@ [currentCategory |-> CategoryNames[category], currentCategoryIndex |-> index]

\* a failure of a collaborator, within the budget of the model
Fault(name) ==
  /\ faults < MaxFaults
  /\ faults' = faults + 1
  /\ runFaults' = runFaults \cup {name}

NoFault == UNCHANGED <<faults, runFaults>>

\* the command is invoked (again) on the same output directory
Invoke ==
  /\ pc \in {"idle", "returned", "killed"}
  /\ runs < MaxRuns
  /\ runs' = runs + 1
  /\ pc' = "resume_check"
  /\ recoveryState' = NoObject
  /\ architecture' = NoObject
  /\ fileCounter' = 0
  /\ continueGeneration' = FALSE
  /\ generatedFiles' = <<>>
  /\ categories' = <<>>
  /\ starts' = <<>>
  /\ success' = TRUE
  /\ cat' = 0
  /\ i' = 0
  /\ error' = Null
  /\ diagram' = Null
  /\ diagramId' = Null
  /\ zipPath' = Null
  /\ result' = NoObject
  /\ attempts' = <<>>
  /\ runFaults' = {}
  /\ stopped' = (stopped \/ (pc = "returned" /\ ~result.success))
  /\ UNCHANGED <<args, disk, faults>>

\* no .recovery.json: a fresh run
ResumeCheckFresh ==
  /\ pc = "resume_check"
  /\ recoveryFile = NoObject
  /\ pc' = "acquire"
  /\ UNCHANGED <<args, disk, locals, history>>

\* a .recovery.json that JSON.parse rejects
Unreadable == [unreadable |-> TRUE]

\* .recovery.json exists and parses: its architecture, counter and list are
\* taken over, whatever properties it has (an absent architecture is
\* undefined, an absent generatedFiles is replaced by [])
ResumeCheckRecover ==
  /\ pc = "resume_check"
  /\ recoveryFile # NoObject
  /\ recoveryFile # Unreadable
  /\ recoveryState' = recoveryFile
  /\ continueGeneration' = TRUE
  /\ architecture' = IF "architecture" \in DOMAIN recoveryFile
                       THEN recoveryFile.architecture ELSE NoObject
  /\ fileCounter' = recoveryFile.fileCounter
  /\ generatedFiles' = IF "generatedFiles" \in DOMAIN recoveryFile
                         THEN recoveryFile.generatedFiles ELSE <<>>
  /\ pc' = "acquire"
  /\ UNCHANGED <<args, disk, categories, starts, success, cat, i, error,
                 diagram, diagramId, zipPath, result, history>>

\* .recovery.json exists and does not parse: the error is caught and the
\* run goes on as it started
ResumeCheckUnreadable ==
  /\ pc = "resume_check"
  /\ recoveryFile = Unreadable
  /\ pc' = "acquire"
  /\ UNCHANGED <<args, disk, locals, history>>

\* phase 1, the oracle replies with an architecture, which is repaired
AcquireArchitecture ==
  /\ pc = "acquire"
  /\ architecture = NoObject
  /\ \E reply \in ArchPool :
       \/ /\ \E entities \in EntityReplies :
               architecture' = validateArchitecture(reply, entities)
          /\ NoFault
       \/ /\ architecture' = validateArchitecture(reply, TransportError)
          /\ architecture' # reply
          /\ Fault("entities")
  /\ pc' = "architecture_ready"
  /\ UNCHANGED <<args, disk, recoveryState, fileCounter, continueGeneration,
                 generatedFiles, categories, starts, success, cat, i, error,
                 diagram, diagramId, zipPath, result, runs, attempts, stopped>>

\* AcquireDefaultArchitecture with the failure answered by an architecture
\* without folders and files instead of the default one
AcquireNoArchitecture ==
  /\ pc = "acquire"
  /\ architecture = NoObject
  /\ Fault("architecture")
  /\ architecture' = [folders |-> <<>>, files |-> <<>>]
  /\ pc' = "architecture_ready"
  /\ UNCHANGED <<args, disk, recoveryState, fileCounter, continueGeneration,
                 generatedFiles, categories, starts, success, cat, i, error,
                 diagram, diagramId, zipPath, result, runs, attempts, stopped>>

\* phase 1, generateArchitecture fails (transport error, or no JSON object
\* in the reply): the default architecture is used
AcquireDefaultArchitecture ==
  /\ pc = "acquire"
  /\ architecture = NoObject
  /\ Fault("architecture")
  /\ architecture' = _getDefaultArchitecture(description, options)
  /\ pc' = "architecture_ready"
  /\ UNCHANGED <<args, disk, recoveryState, fileCounter, continueGeneration,
                 generatedFiles, categories, starts, success, cat, i, error,
                 diagram, diagramId, zipPath, result, runs, attempts, stopped>>

\* phase 1 is skipped when the architecture was recovered
AcquireRecovered ==
  /\ pc = "acquire"
  /\ architecture # NoObject
  /\ pc' = "architecture_ready"
  /\ UNCHANGED <<args, disk, locals, history>>

\* recovery is saved with phase architecture_ready
SaveArchitectureReady ==
  /\ pc = "architecture_ready"
  /\ recoveryFile' = RecoveryRecord("architecture_ready")
  /\ pc' = "folders"
  /\ UNCHANGED <<args, diskFiles, diskFolders, diagramJson, zipFile, repository,
                 locals, history>>

\* phase 2, every folder of the architecture is created
CreateFolders ==
  /\ pc = "folders"
  /\ diskFolders' = diskFolders \cup {f.path : f \in Range(architecture.folders)}
  /\ pc' = "analyze"
  /\ UNCHANGED <<args, recoveryFile, diskFiles, diagramJson, zipFile, repository,
                 locals, history>>

\* NextCategory with the chain of guarded calls walked from its last call
NextCategoryLast(k, cats, st) ==
  IF \E c \in k..5 : st[c] < Len(cats[c])
    THEN CHOOSE c \in k..5 : st[c] < Len(cats[c]) /\ \A d \in (c + 1)..5 : ~(st[d] < Len(cats[d]))
    ELSE 6

\* the first category from k on whose guard "start < length" holds, 6 if none
NextCategory(k, cats, st) ==
  IF \E c \in k..5 : st[c] < Len(cats[c])
    THEN CHOOSE c \in k..5 : st[c] < Len(cats[c]) /\ \A d \in k..(c - 1) : ~(st[d] < Len(cats[d]))
    ELSE 6

\* phase 3 and the preparation of phase 4: recovery is saved with phase
\* models_analyzed, the files are split into the five categories and the
\* start offsets are set; control reaches the first category to generate
AnalyzeModels ==
  /\ pc = "analyze"
  /\ recoveryFile' = RecoveryRecord("models_analyzed")
  /\ categories' = Categorize(architecture)
  /\ starts' = StartOffsets(continueGeneration, recoveryState)
  /\ success' = TRUE
  /\ cat' = NextCategory(1, categories', starts')
  /\ i' = IF cat' <= 5 THEN starts'[cat'] ELSE 0
  /\ pc' = IF cat' <= 5 THEN "generate" ELSE "global_query"
  /\ UNCHANGED <<args, diskFiles, diskFolders, diagramJson, zipFile, repository,
                 recoveryState, architecture, fileCounter, continueGeneration,
                 generatedFiles, error, diagram, diagramId, zipPath, result, history>>

\* files[i] of the category being generated
CurrentFile == architecture.files[categories[cat][i + 1]]

\* _generateFile(file, outputPath, ...) when it does not throw: the code of
\* the file is produced from a template or by the oracle, the file is
\* written under outputPath and its path is returned
_generateFile(file, filePath) ==
  /\ diskFiles' = diskFiles \cup {file.path}
  /\ filePath = file.path

\* one turn of the loop of generateFileCategory in which _generateFile
\* returns: the counter is incremented and the returned path is pushed on
\* generatedFiles
GenerateFile ==
  /\ pc = "generate"
  /\ fileCounter' = fileCounter + 1
  /\ \E filePath \in {CurrentFile.path} :
       /\ _generateFile(CurrentFile, filePath)
       /\ generatedFiles' = Append(generatedFiles, filePath)
  /\ attempts' = Append(attempts, <<cat, i>>)
  /\ pc' = "checkpoint"
  /\ UNCHANGED <<args, recoveryFile, diskFolders, diagramJson, zipFile, repository,
                 recoveryState, architecture, continueGeneration, categories, starts,
                 success, cat, i, error, diagram, diagramId, zipPath, result,
                 runs, faults, runFaults, stopped>>

\* one turn of the loop in which _generateFile throws: nothing is written
GenerateFileFails ==
  /\ pc = "generate"
  /\ Fault("file")
  /\ fileCounter' = fileCounter + 1
  /\ attempts' = Append(attempts, <<cat, i>>)
  /\ \E message \in ErrorMessages : error' = message
  /\ pc' = "file_error"
  /\ UNCHANGED <<args, disk, recoveryState, architecture, continueGeneration,
                 generatedFiles, categories, starts, success, cat, i,
                 diagram, diagramId, zipPath, result, runs, stopped>>

\* the loop of generateFileCategory moves to i + 1, or the category is done
\* and the chain of guarded calls reaches the next category
Advance ==
  IF i + 1 < Len(categories[cat])
    THEN /\ i' = i + 1
         /\ cat' = cat
         /\ pc' = "generate"
    ELSE /\ cat' = NextCategory(cat + 1, categories, starts)
         /\ i' = IF cat' <= 5 THEN starts[cat'] ELSE 0
         /\ pc' = IF cat' <= 5 THEN "generate" ELSE "global_query"

\* the recovery state is saved after the file
Checkpoint ==
  /\ pc = "checkpoint"
  /\ recoveryFile' = FileRecord(cat, i)
  /\ Advance
  /\ UNCHANGED <<args, diskFiles, diskFolders, diagramJson, zipFile, repository,
                 recoveryState, architecture, fileCounter, continueGeneration,
                 generatedFiles, categories, starts, success, error,
                 diagram, diagramId, zipPath, result, history>>

\* FileError without the test of options.continueOnError: always continue
FileErrorContinues ==
  /\ pc = "file_error"
  /\ recoveryFile' = FileRecord(cat, i) @@ [lastError |-> error]
  /\ Advance
  /\ UNCHANGED <<args, diskFiles, diskFolders, diagramJson, zipFile, repository,
                 recoveryState, architecture, fileCounter, continueGeneration,
                 generatedFiles, categories, starts, success, error,
                 diagram, diagramId, zipPath, result, history>>

\* FileError going back to the file that failed
FileErrorRetries ==
  /\ pc = "file_error"
  /\ recoveryFile' = FileRecord(cat, i) @@ [lastError |-> error]
  /\ pc' = "generate"
  /\ UNCHANGED <<args, diskFiles, diskFolders, diagramJson, zipFile, repository,
                 recoveryState, architecture, fileCounter, continueGeneration,
                 generatedFiles, categories, starts, success, cat, i, error,
                 diagram, diagramId, zipPath, result, history>>

\* the catch of generateFileCategory: the recovery state is saved with
\* lastError; the loop continues, or the category returns false and no
\* later category is entered
FileError ==
  /\ pc = "file_error"
  /\ recoveryFile' = FileRecord(cat, i) @@ [lastError |-> error]
  /\ IF options.continueOnError
       THEN Advance /\ UNCHANGED success
       ELSE /\ success' = FALSE
            /\ pc' = "global_query"
            /\ UNCHANGED <<cat, i>>
  /\ UNCHANGED <<args, diskFiles, diskFolders, diagramJson, zipFile, repository,
                 recoveryState, architecture, fileCounter, continueGeneration,
                 generatedFiles, categories, starts, error,
                 diagram, diagramId, zipPath, result, history>>

\* architecture.files.some(... globalQuery.js / global-query.js ...)
globalQueryExists ==
  \E f \in Range(architecture.files) :
    Includes(f.path, GlobalQueryJs) \/ Includes(f.path, GlobalDashQueryJs)

GlobalQueryWanted == success /\ options.includeGlobalQuery /\ ~globalQueryExists

\* the globalQuery post-phase does not apply
GlobalQuerySkipped ==
  /\ pc = "global_query"
  /\ ~GlobalQueryWanted
  /\ pc' = "files_generated"
  /\ UNCHANGED <<args, disk, locals, history>>

\* routes/globalQuery.js is rendered and written, app.js is updated
GlobalQuery ==
  /\ pc = "global_query"
  /\ GlobalQueryWanted
  /\ diskFiles' = diskFiles \cup {RoutesGlobalQueryJs}
  /\ generatedFiles' = Append(generatedFiles, RoutesGlobalQueryJs)
  /\ pc' = "files_generated"
  /\ UNCHANGED <<args, recoveryFile, diskFolders, diagramJson, zipFile, repository,
                 recoveryState, architecture, fileCounter, continueGeneration,
                 categories, starts, success, cat, i, error,
                 diagram, diagramId, zipPath, result, history>>

\* the post-phase throws, before or after routes/globalQuery.js was written:
\* success becomes false unless continueOnError
GlobalQueryFails ==
  /\ pc = "global_query"
  /\ GlobalQueryWanted
  /\ Fault("globalQuery")
  /\ diskFiles' \in {diskFiles, diskFiles \cup {RoutesGlobalQueryJs}}
  /\ success' = options.continueOnError
  /\ pc' = "files_generated"
  /\ UNCHANGED <<args, recoveryFile, diskFolders, diagramJson, zipFile, repository,
                 recoveryState, architecture, fileCounter,
                 continueGeneration, generatedFiles, categories, starts, cat, i, error,
                 diagram, diagramId, zipPath, result, runs, attempts, stopped>>

\* SaveFilesGenerated without the test of success
SaveFilesGeneratedAlways ==
  /\ pc = "files_generated"
  /\ recoveryFile' = RecoveryRecord("files_generated") @@ [completed |-> TRUE]
  /\ pc' = "diagram"
  /\ UNCHANGED <<args, diskFiles, diskFolders, diagramJson, zipFile, repository,
                 locals, history>>

\* "if (success)": recovery is saved with phase files_generated
SaveFilesGenerated ==
  /\ pc = "files_generated"
  /\ recoveryFile' =
       IF success
         THEN RecoveryRecord("files_generated") @@ [completed |-> TRUE]
         ELSE recoveryFile
  /\ pc' = "diagram"
  /\ UNCHANGED <<args, diskFiles, diskFolders, diagramJson, zipFile, repository,
                 locals, history>>

\* phase 6: the diagram is generated and saved in the repository
SaveDiagram ==
  /\ pc = "diagram"
  /\ diagram' = "diagram"
  /\ diagramId' = "id"
  /\ repository' = TRUE
  /\ pc' = "zip"
  /\ UNCHANGED <<args, recoveryFile, diskFiles, diskFolders, diagramJson, zipFile,
                 recoveryState, architecture, fileCounter, continueGeneration,
                 generatedFiles, categories, starts, success, cat, i, error,
                 zipPath, result, history>>

\* SaveDiagramFails taking the failed save for a failure of the run: no
\* diagram.json, success is false
SaveDiagramFailsRun ==
  /\ pc = "diagram"
  /\ Fault("repository")
  /\ diagram' = "diagram"
  /\ success' = FALSE
  /\ pc' = "zip"
  /\ UNCHANGED <<args, disk, recoveryState, architecture, fileCounter,
                 continueGeneration, generatedFiles, categories, starts, cat, i,
                 error, diagramId, zipPath, result, runs, attempts, stopped>>

\* phase 6: the repository's save fails, diagram.json is written instead
SaveDiagramFails ==
  /\ pc = "diagram"
  /\ Fault("repository")
  /\ diagram' = "diagram"
  /\ diagramJson' = [architecture |-> architecture, diagram |-> diagram',
                     createdAt |-> "now"]
  /\ pc' = "zip"
  /\ UNCHANGED <<args, recoveryFile, diskFiles, diskFolders, zipFile, repository,
                 recoveryState, architecture, fileCounter, continueGeneration,
                 generatedFiles, categories, starts, success, cat, i, error,
                 diagramId, zipPath, result, runs, attempts, stopped>>

\* phase 6: generateDiagram throws
GenerateDiagramFails ==
  /\ pc = "diagram"
  /\ Fault("diagram")
  /\ pc' = "zip"
  /\ UNCHANGED <<args, disk, locals, runs, attempts, stopped>>

\* phase 7 without generateZip
ZipSkipped ==
  /\ pc = "zip"
  /\ ~options.generateZip
  /\ pc' = "complete"
  /\ UNCHANGED <<args, disk, locals, history>>

\* GenerateZip taking place after the removal of the recovery file
GenerateZipAfterRemoval ==
  /\ pc = "zip"
  /\ options.generateZip
  /\ zipFile' = [recovery |-> recoveryFile # NoObject /\ ~success,
                 diagramJson |-> diagramJson # NoObject,
                 files |-> diskFiles]
  /\ zipPath' = "zip"
  /\ pc' = "complete"
  /\ UNCHANGED <<args, recoveryFile, diskFiles, diskFolders, diagramJson, repository,
                 recoveryState, architecture, fileCounter, continueGeneration,
                 generatedFiles, categories, starts, success, cat, i, error,
                 diagram, diagramId, result, history>>

\* phase 7: the output directory is archived
GenerateZip ==
  /\ pc = "zip"
  /\ options.generateZip
  /\ zipFile' = [recovery |-> recoveryFile # NoObject, diagramJson |-> diagramJson # NoObject,
                 files |-> diskFiles]
  /\ zipPath' = "zip"
  /\ pc' = "complete"
  /\ UNCHANGED <<args, recoveryFile, diskFiles, diskFolders, diagramJson, repository,
                 recoveryState, architecture, fileCounter, continueGeneration,
                 generatedFiles, categories, starts, success, cat, i, error,
                 diagram, diagramId, result, history>>

\* phase 7: generateProjectZip rejects
GenerateZipFails ==
  /\ pc = "zip"
  /\ options.generateZip
  /\ Fault("zip")
  /\ pc' = "complete"
  /\ UNCHANGED <<args, disk, locals, runs, attempts, stopped>>

\* Complete with the recovery file removed whatever success is
CompleteRemovesAlways ==
  /\ pc = "complete"
  /\ recoveryFile' = NoObject
  /\ result' = [success |-> success, generatedFiles |-> generatedFiles,
                diagramId |-> diagramId, zipPath |-> zipPath]
  /\ pc' = "returned"
  /\ UNCHANGED <<args, diskFiles, diskFolders, diagramJson, zipFile, repository,
                 recoveryState, architecture, fileCounter, continueGeneration,
                 generatedFiles, categories, starts, success, cat, i, error,
                 diagram, diagramId, zipPath, history>>

\* the recovery file is removed if success, and the result is returned
Complete ==
  /\ pc = "complete"
  /\ recoveryFile' = IF success THEN NoObject ELSE recoveryFile
  /\ result' = [success |-> success, generatedFiles |-> generatedFiles,
                diagramId |-> diagramId, zipPath |-> zipPath]
  /\ pc' = "returned"
  /\ UNCHANGED <<args, diskFiles, diskFolders, diagramJson, zipFile, repository,
                 recoveryState, architecture, fileCounter, continueGeneration,
                 generatedFiles, categories, starts, success, cat, i, error,
                 diagram, diagramId, zipPath, history>>

\* the process is killed at a suspension point: what the run held in memory
\* is lost, the output directory stays as it is
Kill ==
  /\ pc \notin {"idle", "returned", "killed"}
  /\ pc' = "killed"
  /\ recoveryState' = NoObject
  /\ architecture' = NoObject
  /\ fileCounter' = 0
  /\ continueGeneration' = FALSE
  /\ generatedFiles' = <<>>
  /\ categories' = <<>>
  /\ starts' = <<>>
  /\ success' = TRUE
  /\ cat' = 0
  /\ i' = 0
  /\ error' = Null
  /\ diagram' = Null
  /\ diagramId' = Null
  /\ zipPath' = Null
  /\ result' = NoObject
  /\ attempts' = <<>>
  /\ runFaults' = {}
  /\ stopped' = TRUE
  /\ UNCHANGED <<args, disk, runs, faults>>

Next ==
  \/ Invoke /\ UNCHANGED <<client, cleaner, diagrams, splicer, backend>>
  \/ ResumeCheckFresh /\ UNCHANGED <<client, cleaner, diagrams, splicer, backend>>
  \/ ResumeCheckRecover /\ UNCHANGED <<client, cleaner, diagrams, splicer, backend>>
  \/ AcquireArchitecture /\ UNCHANGED <<client, cleaner, diagrams, splicer, backend>>
  \/ AcquireDefaultArchitecture /\ UNCHANGED <<client, cleaner, diagrams, splicer, backend>>
  \/ AcquireRecovered /\ UNCHANGED <<client, cleaner, diagrams, splicer, backend>>
  \/ SaveArchitectureReady /\ UNCHANGED <<client, cleaner, diagrams, splicer, backend>>
  \/ CreateFolders /\ UNCHANGED <<client, cleaner, diagrams, splicer, backend>>
  \/ AnalyzeModels /\ UNCHANGED <<client, cleaner, diagrams, splicer, backend>>
  \/ GenerateFile /\ UNCHANGED <<client, cleaner, diagrams, splicer, backend>>
  \/ GenerateFileFails /\ UNCHANGED <<client, cleaner, diagrams, splicer, backend>>
  \/ Checkpoint /\ UNCHANGED <<client, cleaner, diagrams, splicer, backend>>
  \/ FileError /\ UNCHANGED <<client, cleaner, diagrams, splicer, backend>>
  \/ GlobalQuerySkipped /\ UNCHANGED <<client, cleaner, diagrams, splicer, backend>>
  \/ GlobalQuery /\ UNCHANGED <<client, cleaner, diagrams, splicer, backend>>
  \/ GlobalQueryFails /\ UNCHANGED <<client, cleaner, diagrams, splicer, backend>>
  \/ SaveFilesGenerated /\ UNCHANGED <<client, cleaner, diagrams, splicer, backend>>
  \/ SaveDiagram /\ UNCHANGED <<client, cleaner, diagrams, splicer, backend>>
  \/ SaveDiagramFails /\ UNCHANGED <<client, cleaner, diagrams, splicer, backend>>
  \/ GenerateDiagramFails /\ UNCHANGED <<client, cleaner, diagrams, splicer, backend>>
  \/ ZipSkipped /\ UNCHANGED <<client, cleaner, diagrams, splicer, backend>>
  \/ GenerateZip /\ UNCHANGED <<client, cleaner, diagrams, splicer, backend>>
  \/ GenerateZipFails /\ UNCHANGED <<client, cleaner, diagrams, splicer, backend>>
  \/ Complete /\ UNCHANGED <<client, cleaner, diagrams, splicer, backend>>
  \/ Kill /\ UNCHANGED <<client, cleaner, diagrams, splicer, backend>>

Spec == Init /\ [][Next]_vars

(***************************************************************************)
(* generateCompleteProject on an output directory whose .recovery.json was *)
(* not written by this revision of the pipeline                            *)
(***************************************************************************)
\* a state of another schema: the position in the categories and the
\* counter, no architecture
PositionOnly ==
  [ phase |-> "generating_files",
    currentCategory |-> CategoryNames[2],
    currentCategoryIndex |-> 0,
    fileCounter |-> 2,
    totalFiles |-> 4,
    generatedFiles |-> << <<"a","p","p",".","j","s">> >> ]

RecoveryFiles == {Unreadable, PositionOnly}

ResumeInit ==
  /\ description = <<"U","n"," ","B","l","o","g">>
  /\ options \in OptionSets
  /\ recoveryFile \in RecoveryFiles
  /\ PipelineStart
  /\ ClientInit
  /\ CleanerIdle
  /\ DiagramsInit
  /\ SplicerIdle

ResumeNext ==
  \/ Next
  \/ ResumeCheckUnreadable /\ UNCHANGED <<client, cleaner, diagrams, splicer, backend>>

ResumeSpec == ResumeInit /\ [][ResumeNext]_vars

(***************************************************************************)
(* _cleanMarkdownDelimiters (oracle client)                                *)
(***************************************************************************)
Newline == "\n"
\* the backtick, written as the name of its code point
Backtick == "U+0060"
Fence == <<Backtick, Backtick, Backtick>>
\* \w of a regular expression
WordChars ==
  Range(UpperCaseLetters) \cup Range(LowerCaseLetters)
    \cup {"0","1","2","3","4","5","6","7","8","9","_"}
\* \s of a regular expression, and what String.prototype.trim removes
SpaceChars == {" ", "\t", "\n", "\r"}
FilepathColon == <<"f","i","l","e","p","a","t","h",":">>

\* whether t occurs in s at position k
At(s, k, t) ==
  /\ k >= 1
  /\ k + Len(t) - 1 <= Len(s)
  /\ SubSeq(s, k, k + Len(t) - 1) = t

\* s without its characters k .. k + n - 1
Remove(s, k, n) == SubSeq(s, 1, k - 1) \o SubSeq(s, k + n, Len(s))

\* the line terminators of a regular expression
LineTerminators == {"\n", "\r"}
\* ^ under the m flag
LineStart(s, k) == k = 1 \/ s[k - 1] \in LineTerminators
\* $ under the m flag, tested before position k
LineEnd(s, k) == k = Len(s) + 1 \/ s[k] \in LineTerminators

\* the first position >= k that holds no character of set
SkipChars(s, k, set) ==
  IF \E j \in k..Len(s) : s[j] \notin set
    THEN CHOOSE j \in k..Len(s) :
           s[j] \notin set /\ \A h \in k..(j - 1) : s[h] \in set
    ELSE Len(s) + 1

\* String.prototype.trim
Trim(s) ==
  IF \A k \in 1..Len(s) : s[k] \in SpaceChars THEN <<>>
  ELSE LET first == SkipChars(s, 1, SpaceChars)
           last == CHOOSE j \in 1..Len(s) :
                     s[j] \notin SpaceChars /\ \A h \in (j + 1)..Len(s) : s[h] \in SpaceChars
       IN SubSeq(s, first, last)

\* the length of the match of ```[\w]*\n at position k, 0 when there is none
OpeningFenceAt(s, k) ==
  IF At(s, k, Fence)
    THEN LET j == SkipChars(s, k + 3, WordChars)
         IN IF j <= Len(s) /\ s[j] = Newline THEN j - k + 1 ELSE 0
    ELSE 0

\* code.replace(/^```[\w]*\n/m, ''): the first match only
RemoveFirstOpeningFence(s) ==
  LET Match(k) == LineStart(s, k) /\ OpeningFenceAt(s, k) > 0 IN
  IF \E k \in 1..Len(s) : Match(k)
    THEN LET k == CHOOSE k \in 1..Len(s) : Match(k) /\ \A h \in 1..(k - 1) : ~Match(h)
         IN Remove(s, k, OpeningFenceAt(s, k))
    ELSE s

\* whether \n``` matches at position k
ClosingFenceAt(s, k) == At(s, k, <<Newline>> \o Fence)

\* cleaned.replace(/\n```$/m, ''): the first match only
RemoveFirstClosingFence(s) ==
  LET Match(k) == ClosingFenceAt(s, k) /\ LineEnd(s, k + 4) IN
  IF \E k \in 1..Len(s) : Match(k)
    THEN LET k == CHOOSE k \in 1..Len(s) : Match(k) /\ \A h \in 1..(k - 1) : ~Match(h)
         IN Remove(s, k, 4)
    ELSE s

\* cleaned.replace(/```[\w]*\n/gm, ''): every match, left to right
RECURSIVE RemoveOpeningFences(_)
RemoveOpeningFences(s) ==
  IF s = <<>> THEN <<>>
  ELSE IF OpeningFenceAt(s, 1) > 0
    THEN RemoveOpeningFences(SubSeq(s, OpeningFenceAt(s, 1) + 1, Len(s)))
  ELSE <<s[1]>> \o RemoveOpeningFences(Tail(s))

\* cleaned.replace(/\n```/gm, ''): every match, left to right
RECURSIVE RemoveClosingFences(_)
RemoveClosingFences(s) ==
  IF s = <<>> THEN <<>>
  ELSE IF ClosingFenceAt(s, 1)
    THEN RemoveClosingFences(SubSeq(s, 5, Len(s)))
  ELSE <<s[1]>> \o RemoveClosingFences(Tail(s))

\* the length of the match of ^\/\/\s*filepath:.*$ at position k, 0 when
\* there is none (\s* runs over line breaks, .* stops at the line's end)
FilepathAt(s, k) ==
  IF LineStart(s, k) /\ At(s, k, <<"/","/">>)
    THEN LET j == SkipChars(s, k + 2, SpaceChars)
         IN IF At(s, j, FilepathColon)
              THEN SkipChars(s, j + 9, Range(s) \ LineTerminators) - k
              ELSE 0
    ELSE 0

\* cleaned.replace(/^\/\/\s*filepath:.*$/gm, ''): every match; k is the
\* position the search stands at
RECURSIVE RemoveFilepathLinesFrom(_, _)
RemoveFilepathLinesFrom(s, k) ==
  IF k > Len(s) THEN s
  ELSE IF FilepathAt(s, k) > 0
    THEN RemoveFilepathLinesFrom(Remove(s, k, FilepathAt(s, k)), k)
  ELSE RemoveFilepathLinesFrom(s, k + 1)

RemoveFilepathLines(s) == RemoveFilepathLinesFrom(s, 1)

\* _cleanMarkdownDelimiters(code)
_cleanMarkdownDelimiters(code) ==
  RemoveFilepathLines(
    RemoveClosingFences(
      RemoveOpeningFences(
        RemoveFirstClosingFence(
          RemoveFirstOpeningFence(code)))))

\* the pieces LLM replies are put together from
Segments ==
  { Fence, <<"j","s">>, <<"+">>, <<Newline>>, <<"/","/">>, <<" ">>, FilepathColon }

RECURSIVE Concat(_)
Concat(pieces) ==
  IF pieces = <<>> THEN <<>> ELSE Head(pieces) \o Concat(Tail(pieces))

\* response.choices[0].message.content: every text of at most MaxSegments
\* pieces
Replies ==
  UNION { {Concat(pieces) : pieces \in [1..n -> Segments]} : n \in 0..MaxSegments }

\* code of one or two lines, each ended by a newline
CodeLines == { <<"+", Newline>>, <<" ", "+", Newline>> }

CodeBodies ==
  UNION { {Concat(lines) : lines \in [1..n -> CodeLines]} : n \in 1..2 }

\* a reply that is one fenced block with a language tag
Fenced(body) == Fence \o <<"j","s">> \o <<Newline>> \o body \o Fence

FencedReplies == {Fenced(body) : body \in CodeBodies}

\* "let code = response.choices[0].message.content.trim()"
CleanerInit ==
  /\ content \in {Trim(text) : text \in Replies \cup FencedReplies}
  /\ cleaned = Null
  /\ PipelineIdle
  /\ ClientInit
  /\ DiagramsInit
  /\ SplicerIdle

\* "code = this._cleanMarkdownDelimiters(code)"
CleanReply ==
  /\ cleaned = Null
  /\ cleaned' = _cleanMarkdownDelimiters(content)
  /\ UNCHANGED <<content, pipeline, client, diagrams, splicer, backend>>

CleanerSpec == CleanerInit /\ [][CleanReply]_vars

(***************************************************************************)
(* The oracle client (DeepseekAgent): its four operations on one client    *)
(***************************************************************************)
\* operations completed on one client
MaxCalls == 3

\* the position of the last "/" of a path, 0 when it has none
LastSlash(p) ==
  IF \E k \in 1..Len(p) : p[k] = "/"
    THEN CHOOSE k \in 1..Len(p) : p[k] = "/" /\ \A j \in (k + 1)..Len(p) : p[j] # "/"
    ELSE 0

\* path.basename, and split('/').pop(), of a path that does not end in "/"
basename(p) == SubSeq(p, LastSlash(p) + 1, Len(p))

\* path.dirname of a path that does not end in "/"
dirname(p) ==
  IF LastSlash(p) = 0 THEN <<".">>
  ELSE IF LastSlash(p) = 1 THEN <<"/">>
  ELSE SubSeq(p, 1, LastSlash(p) - 1)

\* _isCacheable
_isCacheable(filePath) ==
  \/ Includes(filePath, <<"/","m","i","d","d","l","e","w","a","r","e","/","a","u","t","h",".","j","s">>)
  \/ Includes(filePath, <<"/","c","o","n","f","i","g","/","d","a","t","a","b","a","s","e",".","j","s">>)
  \/ Includes(filePath, <<"/","u","t","i","l","s","/">>)
  \/ Includes(filePath, <<"/","h","e","l","p","e","r","s","/">>)

\* _getCacheKey; a context without a database has database = <<>> (both are
\* falsy)
_getCacheKey(filePath, context) ==
  LET fileName == basename(filePath)
      fileDir == basename(dirname(filePath))
      dbType == IF context.database = <<>>
                  THEN <<"g","e","n","e","r","i","c">>
                  ELSE context.database
  IN fileDir \o <<"_">> \o fileName \o <<"_">> \o dbType

\* the paths generateCode is asked for
CodePaths ==
  { <<"s","r","c","/","u","t","i","l","s","/","x",".","j","s">>,
    <<"l","i","b","/","u","t","i","l","s","/","x",".","j","s">>,
    <<"u","t","i","l","s","/","x",".","j","s">>,
    <<"s","r","c","/","m","o","d","e","l","s","/","x",".","j","s">> }

\* the contexts generateCode is asked with
Contexts == { [database |-> <<>>], [database |-> <<"m","o","n","g","o","d","b">>] }

\* message.content of the replies to a code request
CodeReplies ==
  { <<"a">>, <<" ","b","\n">>, Fence \o <<"j","s","\n","a","\n">> \o Fence }

\* the architectures validateArchitecture is handed
\*   complete, with top-level folders and the files of the entity "User"
ArchTopLevel ==
  [ folders |-> << Folder(ModelsFolder), Folder(ControllersFolder),
                   Folder(RoutesFolder), Folder(ConfigFolder) >>,
    files |-> << File(AppJs, TRUE, "main"),
                 File(PackageJson, TRUE, "config"),
                 File(DotEnvExample, TRUE, "config") >>
              \o EntityFiles(<<"U","s","e","r">>) ]

ValidateInputs == ArchPool \cup {ArchTopLevel}

\* the record of a completed operation
Completed(op, transport, outcome, input, output) ==
  [ n |-> IF call = NoObject THEN 1 ELSE call.n + 1,
    op |-> op, transport |-> transport, outcome |-> outcome,
    input |-> input, output |-> output ]

CallsLeft == IF call = NoObject THEN TRUE ELSE call.n < MaxCalls

\* generateArchitecture(description): the request fails, the reply holds no
\* JSON object, or the reply holds an architecture
GenerateArchitecture ==
  /\ CallsLeft
  /\ requests' = requests + 1
  /\ \/ call' = Completed("generateArchitecture", TRUE, "throws", <<>>, TransportError)
     \/ call' = Completed("generateArchitecture", FALSE, "throws", <<>>,
                          "No se pudo extraer el JSON de la respuesta")
     \/ \E reply \in ArchPool :
          call' = Completed("generateArchitecture", FALSE, "returns", <<>>, reply)
  /\ UNCHANGED <<codeCache, pipeline, cleaner, diagrams, splicer, backend>>

\* generateCode(filePath, description, context)
GenerateCode ==
  /\ CallsLeft
  /\ \E filePath \in CodePaths, context \in Contexts :
       LET cacheKey == _getCacheKey(filePath, context)
           input == [filePath |-> filePath, context |-> context]
       IN
       IF cacheKey \in DOMAIN codeCache
         THEN /\ call' = Completed("generateCode", FALSE, "returns", input,
                                   codeCache[cacheKey])
              /\ UNCHANGED <<codeCache, requests>>
         ELSE /\ requests' = requests + 1
              /\ \/ /\ call' = Completed("generateCode", TRUE, "throws", input,
                                         TransportError)
                    /\ UNCHANGED codeCache
                 \/ \E reply \in CodeReplies :
                      LET code == _cleanMarkdownDelimiters(Trim(reply)) IN
                      /\ call' = Completed("generateCode", FALSE, "returns", input, code)
                      /\ codeCache' =
                           IF _isCacheable(filePath)
                             THEN (cacheKey :> code) @@ codeCache
                             ELSE codeCache
  /\ UNCHANGED <<pipeline, cleaner, diagrams, splicer, backend>>

\* validateArchitecture(architecture, description), on an architecture of
\* the caller or on the one the last validateArchitecture returned; the
\* entity-extraction request is issued when a folder is missing
ValidateArchitecture ==
  /\ CallsLeft
  /\ \E architecture_ \in
          ValidateInputs \cup
            (IF call # NoObject /\ call.op = "validateArchitecture"
               THEN {call.output} ELSE {}) :
       LET requested == validateArchitecture(architecture_, TransportError) # architecture_
       IN
       /\ \/ \E entities \in EntityReplies :
               call' = Completed("validateArchitecture", FALSE, "returns",
                                 [architecture |-> architecture_, entities |-> entities],
                                 validateArchitecture(architecture_, entities))
          \/ /\ requested
             /\ call' = Completed("validateArchitecture", TRUE, "returns",
                                  [architecture |-> architecture_,
                                   entities |-> TransportError],
                                  validateArchitecture(architecture_, TransportError))
       /\ requests' = IF requested THEN requests + 1 ELSE requests
  /\ UNCHANGED <<codeCache, pipeline, cleaner, diagrams, splicer, backend>>

\* the recommendation generateRecommendation falls back to
DefaultRecommendation ==
  [ database |-> "MongoDB", framework |-> "Express", auth |-> "JWT",
    includeGraphQL |-> FALSE, includeWebsockets |-> FALSE,
    includeGlobalQuery |-> FALSE, recommendations |-> <<>>, suggestions |-> <<>> ]

\* the JSON objects a recommendation reply holds
RecommendationReplies == { [database |-> "PostgreSQL"], [auth |-> "OAuth"] }

\* generateRecommendation(description, prompt)
GenerateRecommendation ==
  /\ CallsLeft
  /\ requests' = requests + 1
  /\ LET fallback ==
           [DefaultRecommendation EXCEPT !.recommendations =
              <<"No se pudieron obtener recomendaciones personalizadas debido a un error.">>]
     IN
     \/ call' = Completed("generateRecommendation", TRUE, "returns", <<>>, fallback)
     \/ call' = Completed("generateRecommendation", FALSE, "returns", <<>>, fallback)
     \/ \E recommendation \in RecommendationReplies :
          call' = Completed("generateRecommendation", FALSE, "returns", <<>>,
                            recommendation @@ DefaultRecommendation)
  /\ UNCHANGED <<codeCache, pipeline, cleaner, diagrams, splicer, backend>>

ClientNext ==
  \/ GenerateArchitecture
  \/ GenerateCode
  \/ ValidateArchitecture
  \/ GenerateRecommendation

\* one fresh client, everything else at rest
ClientStart ==
  /\ ClientInit
  /\ PipelineIdle
  /\ CleanerIdle
  /\ DiagramsInit
  /\ SplicerIdle

ClientSpec == ClientStart /\ [][ClientNext]_vars

(***************************************************************************)
(* The diagram repository (DiagramService over the ProjectDiagram          *)
(* collection)                                                             *)
(***************************************************************************)
\* saveDiagram calls on one collection
MaxSaves == 3

\* ProjectDiagram.findByName: findOne({ name: new RegExp(name, 'i') }), the
\* first document in natural order whose name matches; a name made of
\* letters matches, as a pattern, the names it is part of, whatever the case
findByName(documents, name) ==
  LET matches ==
        { k \in 1..Len(documents) :
            Includes(ToLowerCase(documents[k].name), ToLowerCase(name)) }
  IN IF matches = {} THEN 0
     ELSE CHOOSE k \in matches : \A j \in matches : k <= j

\* the project names diagrams are saved under
DiagramNames ==
  { <<"a","p","i">>, <<"m","y","a","p","i">>, <<"A","P","I">>, <<"b","l","o","g">> }

\* what is saved under a name
DiagramPayloads ==
  { [ description |-> "first", architecture |-> ArchBare,
      diagram |-> [nodes |-> {"README.md"}, edges |-> {}] ],
    [ description |-> "second", architecture |-> ArchAppEntity,
      diagram |-> [nodes |-> {"app.js", "index.js"}, edges |-> {<<"index.js", "app.js">>}] ] }

\* saveDiagram(projectData)
saveDiagram ==
  /\ saved.n < MaxSaves
  /\ \E name \in DiagramNames, payload \in DiagramPayloads :
       LET projectData == [name |-> name] @@ payload
           existingDiagram == findByName(collection, projectData.name)
           document ==
             IF existingDiagram # 0
               THEN [collection[existingDiagram] EXCEPT
                       !.description = projectData.description,
                       !.architecture = projectData.architecture,
                       !.diagram = projectData.diagram]
               ELSE [_id |-> Len(collection) + 1] @@ projectData
       IN
       /\ collection' =
            IF existingDiagram # 0
              THEN [collection EXCEPT ![existingDiagram] = document]
              ELSE Append(collection, document)
       /\ saved' = [n |-> saved.n + 1, record |-> projectData, returned |-> document,
                    found |-> NoObject]
  /\ UNCHANGED <<savedProjects, config, drawn, pipeline, client, cleaner, splicer, backend>>

\* findDiagramByName(name), after a saveDiagram
findDiagramByName ==
  /\ saved.n > 0
  /\ \E name \in DiagramNames :
       LET k == findByName(collection, name) IN
       saved' = [saved EXCEPT !.found =
                   [name |-> name,
                    document |-> IF k = 0 THEN NoObject ELSE collection[k]]]
  /\ UNCHANGED <<collection, savedProjects, config, drawn, pipeline, client, cleaner, splicer, backend>>

DiagramNext ==
  \/ saveDiagram
  \/ findDiagramByName

\* one empty collection, everything else at rest
DiagramStart ==
  /\ DiagramsInit
  /\ PipelineIdle
  /\ ClientInit
  /\ CleanerIdle
  /\ SplicerIdle

DiagramSpec == DiagramStart /\ [][DiagramNext]_vars

(***************************************************************************)
(* The globalQuery splice of app.js                                        *)
(***************************************************************************)
\* splices of one app.js
MaxSplices == 2

\* String.prototype.indexOf from a position: the first position from k on
\* at which t occurs in s, 0 when there is none
IndexOf(s, t, k) ==
  IF \E j \in k..Len(s) : At(s, j, t)
    THEN CHOOSE j \in k..Len(s) : At(s, j, t) /\ \A h \in k..(j - 1) : ~At(s, h, t)
    ELSE 0

RutasComment == <<"/","/"," ","R","u","t","a","s">>
AppUse == <<"a","p","p",".","u","s","e">>

\* what the splice puts after the matched text
GlobalQueryRoute ==
  <<"\n","a","p","p",".","u","s","e","(","'","/","a","p","i","/","g","l",
    "o","b","a","l","-","q","u","e","r","y","'",","," ","r","e","q","u",
    "i","r","e","(","'",".","/","r","o","u","t","e","s","/","g","l","o",
    "b","a","l","Q","u","e","r","y","'",")",")",";","\n","\n","/","/"," ",
    "O","t","r","a","s"," ","r","u","t","a","s","\n","a","p","p",".","u",
    "s","e">>

\* the update of app.js: unless the content mentions global-query or
\* globalQuery, the text matched by /\/\/ Rutas[\s\S]*?app\.use/ is replaced
\* by itself followed by the route of globalQuery and a new app.use
SpliceGlobalQuery(text) ==
  LET rutas == IndexOf(text, RutasComment, 1)
      use == IF rutas = 0 THEN 0 ELSE IndexOf(text, AppUse, rutas + Len(RutasComment))
  IN
  IF \/ Includes(text, <<"g","l","o","b","a","l","-","q","u","e","r","y">>)
     \/ Includes(text, <<"g","l","o","b","a","l","Q","u","e","r","y">>)
     \/ use = 0
    THEN text
    ELSE SubSeq(text, 1, use + Len(AppUse) - 1) \o GlobalQueryRoute
           \o SubSeq(text, use + Len(AppUse), Len(text))

\* the pieces app.js is made of: the middleware, the comment of the routes,
\* a route, an indented route, the error handler, a comment that mentions
\* globalQuery
AppJsHead ==
  <<"a","p","p",".","u","s","e","(","c","o","r","s","(",")",")",";","\n",
    "\n">>
AppJsRutas ==
  <<"/","/"," ","R","u","t","a","s","\n">>
AppJsUsers ==
  <<"a","p","p",".","u","s","e","(","'","/","a","p","i","/","u","s","e",
    "r","s","'",","," ","r","e","q","u","i","r","e","(","'",".","/","r",
    "o","u","t","e","s","/","u","s","e","r","s","'",")",")",";","\n">>
AppJsPosts ==
  <<" "," ","a","p","p",".","u","s","e","(","'","/","a","p","i","/","p",
    "o","s","t","s","'",","," ","r","e","q","u","i","r","e","(","'",".",
    "/","r","o","u","t","e","s","/","p","o","s","t","s","'",")",")",";",
    "\n">>
AppJsTail ==
  <<"\n","/","/"," ","M","a","n","e","j","o"," ","d","e"," ","e","r","r",
    "o","r","e","s","\n","a","p","p",".","u","s","e","(","(","e","r","r",
    ","," ","r","e","q",","," ","r","e","s",","," ","n","e","x","t",")",
    " ","=",">"," ","{","\n","}",")",";","\n">>
AppJsMention ==
  <<"/","/"," ","g","l","o","b","a","l","Q","u","e","r","y","\n">>

\* the contents of app.js before the splice
AppJsContents ==
  { AppJsHead \o rutas \o users \o posts \o mention \o AppJsTail :
      rutas \in {<<>>, AppJsRutas}, users \in {<<>>, AppJsUsers},
      posts \in {<<>>, AppJsPosts}, mention \in {<<>>, AppJsMention} }

SplicerInit ==
  /\ appContent \in AppJsContents
  /\ appBefore = appContent
  /\ splices = 0
  /\ envFile = [exists |-> FALSE, content |-> <<>>]
  /\ webhookFiles = {}
  /\ webhooks = <<>>
  /\ PipelineIdle
  /\ ClientInit
  /\ CleanerIdle
  /\ DiagramsInit

\* app.js is read, spliced and written
UpdateAppWithGlobalQuery ==
  /\ splices < MaxSplices
  /\ appContent' = SpliceGlobalQuery(appContent)
  /\ splices' = splices + 1
  /\ UNCHANGED <<appBefore, envFile, webhookFiles, webhooks, pipeline, client, cleaner,
                 diagrams, backend>>

SpliceSpec == SplicerInit /\ [][UpdateAppWithGlobalQuery]_vars

(***************************************************************************)
(* Webhooks: generateWebhook and its two splices                           *)
(***************************************************************************)
\* generateWebhook calls on one project
MaxWebhooks == 3

\* String.prototype.toUpperCase
ToUpperCase(s) ==
  [k \in 1..Len(s) |->
     IF \E j \in 1..26 : LowerCaseLetters[j] = s[k]
       THEN UpperCaseLetters[CHOOSE j \in 1..26 : LowerCaseLetters[j] = s[k]]
       ELSE s[k]]

\* commonConfigs of generateWebhookConfig, in the order of its entries
commonConfigs ==
  << [service |-> <<"w","h","a","t","s","a","p","p">>, serviceName |-> <<"W","h","a","t","s",
      "A","p","p">>, verificationToken |-> TRUE],
     [service |-> <<"t","w","i","t","c","h">>, serviceName |-> <<"T","w","i","t","c",
         "h">>, verificationToken |-> TRUE],
     [service |-> <<"g","i","t","h","u","b">>, serviceName |-> <<"G","i","t","H","u",
         "b">>, verificationToken |-> TRUE],
     [service |-> <<"s","t","r","i","p","e">>, serviceName |-> <<"S","t","r","i","p",
         "e">>, verificationToken |-> TRUE],
     [service |-> <<"s","l","a","c","k">>, serviceName |-> <<"S","l","a","c",
         "k">>, verificationToken |-> TRUE] >>

\* generateWebhookConfig(serviceName): the first predefined configuration
\* whose key the lower-cased name includes; failing that, what
\* _generateCustomWebhookConfig makes of the reply of the LLM (custom), or
\* its generic configuration
generateWebhookConfigs(serviceName) ==
  LET normalizedService == ToLowerCase(serviceName)
      found == {k \in 1..Len(commonConfigs) :
                  Includes(normalizedService, commonConfigs[k].service)}
  IN
  IF found # {}
    THEN {[serviceName |-> commonConfigs[k].serviceName,
           verificationToken |-> commonConfigs[k].verificationToken] :
            k \in {j \in found : \A h \in found : j <= h}}
    ELSE {[serviceName |-> serviceName, verificationToken |-> token] : token \in BOOLEAN}

\* _updateAppWithWebhook on the content of app.js
_updateAppWithWebhook(text, webhookConfig) ==
  LET routePath == <<"/","a","p","i","/","w","e","b","h","o","o","k","s",
      "/">> \o ToLowerCase(webhookConfig.serviceName)
      requirePath ==
        <<".","/","r","o","u","t","e","s","/","w","e","b","h","o","o","k","s",
            "/">> \o ToLowerCase(webhookConfig.serviceName) \o <<"W","e","b","h","o","o","k">>
      rutas == IndexOf(text, RutasComment, 1)
      use == IF rutas = 0 THEN 0 ELSE IndexOf(text, AppUse, rutas + Len(RutasComment))
      exports ==
        IF rutas = 0 THEN 0
        ELSE IndexOf(text, <<"m","o","d","u","l","e",".","e","x","p","o","r","t",
            "s">>, rutas + Len(RutasComment))
      section == IF use = 0 THEN exports
                 ELSE IF exports = 0 THEN use
                 ELSE IF use < exports THEN use ELSE exports
  IN
  IF Includes(text, <<"w","e","b","h","o","o","k","s">>) \/ section = 0
    THEN text
    ELSE SubSeq(text, 1, section - 1)
           \o <<"\n","a","p","p",".","u","s","e","(","'">> \o routePath \o <<"'",","," ","r",
               "e","q","u","i","r","e","(","'">> \o requirePath
           \o <<"'",")",")",";","\n","\n">>
           \o SubSeq(text, section, Len(text))

\* the name of the secret of a service
WebhookSecret(webhookConfig) ==
  ToUpperCase(webhookConfig.serviceName) \o <<"_","W","E","B","H","O","O","K","_","S","E","C",
      "R","E","T">>

\* _updateEnvWithWebhook with the variable appended whatever the file holds
_updateEnvWithWebhookAlways(file, webhookConfig) ==
  [exists |-> TRUE,
   content |-> file.content \o <<"\n","\n">> \o WebhookSecret(webhookConfig)
                 \o <<"=","y","o","u","r","_","w","e","b","h","o","o","k","_","s","e","c","r",
                     "e","t","_","h","e","r","e","\n">>]

\* _updateEnvWithWebhook on .env.example
_updateEnvWithWebhook(file, webhookConfig) ==
  LET envVars ==
        <<"#"," ","T","o","k","e","n"," ","p","a","r","a"," ","w","e","b","h","o","o","k"," ",
            "d","e"," ">> \o webhookConfig.serviceName \o <<"\n">>
          \o WebhookSecret(webhookConfig) \o <<"=","y","o","u","r","_","w","e","b","h","o","o",
              "k","_","s","e","c","r","e","t","_","h","e","r","e">>
  IN
  IF ~webhookConfig.verificationToken THEN file
  ELSE IF file.exists
    THEN IF Includes(file.content, WebhookSecret(webhookConfig))
           THEN file
           ELSE [file EXCEPT !.content = file.content \o <<"\n","\n">> \o envVars \o <<"\n">>]
    ELSE [exists |-> TRUE, content |-> envVars \o <<"\n">>]

\* the services webhooks are asked for
ServiceNames == { <<"g","i","t","h","u","b">>, <<"S","t","r","i","p","e">>, <<"H","u","b">> }

\* the contents of .env.example before the first webhook
EnvFiles ==
  { [exists |-> FALSE, content |-> <<>>],
    [exists |-> TRUE, content |-> <<"P","O","R","T","=","3","0","0","0","\n">>],
    [exists |-> TRUE, content |-> <<"G","I","T","H","U","B","_","W","E","B","H","O","O","K","_",
        "S","E","C","R","E","T","=","a","b","c","\n">>] }

\* an app.js whose routes are followed by module.exports only
AppJsExports == AppJsRutas \o <<"\n","m","o","d","u","l","e",".","e","x","p","o","r","t","s",
    " ","="," ","a","p","p",";","\n">>

\* a generated project: app.js and .env.example as they may be, no webhook
WebhookInit ==
  /\ appContent \in AppJsContents \cup {AppJsExports}
  /\ appBefore = appContent
  /\ splices = 0
  /\ envFile \in EnvFiles
  /\ webhookFiles = {}
  /\ webhooks = <<>>
  /\ PipelineIdle
  /\ ClientInit
  /\ CleanerIdle
  /\ DiagramsInit

\* generateWebhook(serviceName, outputPath, options)
generateWebhook ==
  /\ Len(webhooks) < MaxWebhooks
  /\ \E serviceName \in ServiceNames :
       \E webhookConfig \in generateWebhookConfigs(serviceName) :
         LET webhookFileName ==
               ToLowerCase(webhookConfig.serviceName) \o <<"W","e","b","h","o","o","k",".","j","s">>
             done == [serviceName |-> serviceName, webhookConfig |-> webhookConfig,
                      outcome |-> "returns", app |-> appContent, env |-> envFile]
         IN
         /\ webhookFiles' = webhookFiles \cup {webhookFileName}
         /\ appContent' = _updateAppWithWebhook(appContent, webhookConfig)
         /\ envFile' = _updateEnvWithWebhook(envFile, webhookConfig)
         /\ webhooks' = Append(webhooks, done)
  /\ UNCHANGED <<appBefore, splices, pipeline, client, cleaner, diagrams, backend>>

\* generateWebhook whose templateProcessor.generateWebhook throws: the
\* error is rethrown before a file is written
generateWebhookThrows ==
  /\ Len(webhooks) < MaxWebhooks
  /\ \E serviceName \in ServiceNames :
       \E webhookConfig \in generateWebhookConfigs(serviceName) :
         webhooks' = Append(webhooks,
                            [serviceName |-> serviceName, webhookConfig |-> webhookConfig,
                             outcome |-> "throws", app |-> appContent, env |-> envFile])
  /\ UNCHANGED <<appContent, appBefore, splices, envFile, webhookFiles,
                 pipeline, client, cleaner, diagrams, backend>>

WebhookNext ==
  \/ generateWebhook
  \/ generateWebhookThrows

WebhookSpec == WebhookInit /\ [][WebhookNext]_vars

(***************************************************************************)
(* Saved designs: saveProjectConfiguration and loadProjectConfiguration    *)
(***************************************************************************)
\* saveProjectConfiguration calls in one working directory
MaxConfigs == 3

\* fs.writeJson followed by fs.readJson of a project configuration:
\* JSON.stringify leaves out the properties whose value is undefined
\* (options.name when the command got no name, a file's templateType)
JsonOptions(opts) == [k \in {j \in DOMAIN opts : opts[j] # Undefined} |-> opts[k]]

JsonFile(file) ==
  IF file.templateType = Undefined
    THEN [path |-> file.path, useTemplate |-> file.useTemplate]
    ELSE file

JsonConfig(projectConfig) ==
  [ name |-> projectConfig.name,
    description |-> projectConfig.description,
    options |-> JsonOptions(projectConfig.options),
    architecture |->
      [ folders |-> projectConfig.architecture.folders,
        files |-> [k \in 1..Len(projectConfig.architecture.files) |->
                     JsonFile(projectConfig.architecture.files[k])] ],
    createdAt |-> projectConfig.createdAt ]

\* the names designs are saved under, and what is saved
ProjectNames == {"shop", "blog"}

ProjectOptions ==
  { [name |-> "shop", database |-> "mongodb", framework |-> "express"],
    [name |-> Undefined, database |-> "mysql", framework |-> Undefined] }

ProjectDesigns ==
  { [description |-> "first", options |-> opts, architecture |-> arch] :
      opts \in ProjectOptions, arch \in {ArchLayered, ArchBare} }

\* saveProjectConfiguration writing the file whether it exists or not
saveProjectConfigurationOverwrites ==
  /\ config.n < MaxConfigs
  /\ \E projectName \in ProjectNames, design \in ProjectDesigns :
       LET projectConfig == [name |-> projectName, createdAt |-> config.n + 1] @@ design IN
       /\ savedProjects' =
            (projectName :> JsonConfig(projectConfig))
              @@ [n \in DOMAIN savedProjects \ {projectName} |-> savedProjects[n]]
       /\ config' = [n |-> config.n + 1, given |-> projectConfig,
                     returned |-> [success |-> TRUE, project |-> projectConfig],
                     loaded |-> NoObject]
  /\ UNCHANGED <<collection, saved, drawn, pipeline, client, cleaner, splicer, backend>>

\* saveProjectConfiguration(projectName, description, options, architecture);
\* createdAt is the time of the call
saveProjectConfiguration ==
  /\ config.n < MaxConfigs
  /\ \E projectName \in ProjectNames, design \in ProjectDesigns :
       LET projectConfig == [name |-> projectName, createdAt |-> config.n + 1] @@ design IN
       IF projectName \in DOMAIN savedProjects
         THEN /\ config' = [n |-> config.n + 1, given |-> projectConfig,
                            returned |-> [success |-> FALSE,
                                          message |-> "El proyecto ya existe"],
                            loaded |-> NoObject]
              /\ UNCHANGED savedProjects
         ELSE /\ savedProjects' = (projectName :> JsonConfig(projectConfig)) @@ savedProjects
              /\ config' = [n |-> config.n + 1, given |-> projectConfig,
                            returned |-> [success |-> TRUE, project |-> projectConfig],
                            loaded |-> NoObject]
  /\ UNCHANGED <<collection, saved, drawn, pipeline, client, cleaner, splicer, backend>>

\* loadProjectConfiguration(projectName) of the name saved last
loadProjectConfiguration ==
  /\ config.n > 0
  /\ config.loaded = NoObject
  /\ config' = [config EXCEPT !.loaded = savedProjects[config.given.name]]
  /\ UNCHANGED <<collection, saved, savedProjects, drawn, pipeline, client, cleaner, splicer, backend>>

ConfigNext ==
  \/ saveProjectConfiguration
  \/ loadProjectConfiguration

\* no saved design, everything else at rest
ConfigStart ==
  /\ DiagramsInit
  /\ PipelineIdle
  /\ ClientInit
  /\ CleanerIdle
  /\ SplicerIdle

ConfigSpec == ConfigStart /\ [][ConfigNext]_vars

(***************************************************************************)
(* Phase 3 of generateCompleteProject: context.models and context.routes   *)
(***************************************************************************)
\* path.extname of a file name
extname(name) ==
  IF \E k \in 2..Len(name) : name[k] = "."
    THEN SubSeq(name, CHOOSE k \in 2..Len(name) :
                        name[k] = "." /\ \A j \in (k + 1)..Len(name) : name[j] # ".",
                Len(name))
    ELSE <<>>

\* _getModelNameFromPath
_getModelNameFromPath(filePath) ==
  LET fileName == SubSeq(basename(filePath), 1,
                         Len(basename(filePath)) - Len(extname(basename(filePath))))
  IN IF fileName = <<>> THEN <<>>
     ELSE ToUpperCase(SubSeq(fileName, 1, 1)) \o SubSeq(fileName, 2, Len(fileName))

\* path.basename(filePath, '.js')
basenameJs(filePath) ==
  LET name == basename(filePath) IN
  IF Len(name) > 3 /\ SubSeq(name, Len(name) - 2, Len(name)) = DotJs
    THEN SubSeq(name, 1, Len(name) - 3)
    ELSE name

\* context.models: the files _getFileTypeFromPath takes for models
contextModels(arch) ==
  LET found == SelectSeq(arch.files, LAMBDA file : _getFileTypeFromPath(file.path) = "model")
  IN [k \in 1..Len(found) |->
        [ name |-> _getModelNameFromPath(found[k].path),
          path |-> found[k].path,
          useTemplate |-> found[k].useTemplate ]]

\* context.routes: the files _getFileTypeFromPath takes for routes
contextRoutes(arch) ==
  LET found == SelectSeq(arch.files, LAMBDA file : _getFileTypeFromPath(file.path) = "route")
  IN [k \in 1..Len(found) |->
        [ path |-> basenameJs(found[k].path),
          file |-> basenameJs(found[k].path),
          useTemplate |-> found[k].useTemplate ]]

(***************************************************************************)
(* generateBackend: how the code of a file is produced                     *)
(***************************************************************************)
\* files generateBackend produces code for
MaxDispatch == 3

\* the branch of the loop of generateBackend a file takes: one of the
\* templates of the template engine, or generateCompleteFile ("oracle")
generateBackendBranch(file) ==
  LET fileExtension == ToLowerCase(extname(basename(file.path)))
      name == basename(file.path)
      fileName == IF fileExtension # <<>> /\ Len(name) > Len(fileExtension)
                     /\ SubSeq(name, Len(name) - Len(fileExtension) + 1, Len(name))
                          = fileExtension
                    THEN SubSeq(name, 1, Len(name) - Len(fileExtension))
                    ELSE name
      fileType == _getFileTypeFromPath(file.path)
  IN
  IF fileType = "model" /\ fileExtension = DotJs THEN "model"
  ELSE IF fileType = "controller" /\ fileExtension = DotJs THEN "controller"
  ELSE IF fileType = "route" /\ fileExtension = DotJs THEN "route"
  ELSE IF fileName = <<"a","p","p">> /\ fileExtension = DotJs THEN "app"
  ELSE IF fileName = <<"g","l","o","b","a","l","Q","u","e","r",
      "y">> /\ fileExtension = DotJs THEN "globalQuery"
  ELSE "oracle"

\* options.useTemplates !== false
useTemplates(opts) ==
  IF "useTemplates" \in DOMAIN opts THEN opts.useTemplates ELSE TRUE

\* the options generateBackend is called with, and the files of its
\* architecture
BackendOptions == { [useTemplates |-> TRUE], [useTemplates |-> FALSE], [auth |-> "JWT"] }

BackendPaths ==
  { <<"s","r","c","/","m","o","d","e","l","s","/","u","s","e","r",".","j","s">>,
    <<"s","r","c","/","c","o","n","t","r","o","l","l","e","r","s","/","u","s","e","r","C","o",
        "n","t","r","o","l","l","e","r",".","j","s">>,
    <<"s","r","c","/","r","o","u","t","e","s","/","u","s","e","r","R","o","u","t","e","s",".",
        "j","s">>,
    <<"a","p","p",".","j","s">>,
    <<"s","r","c","/","r","o","u","t","e","s","/","g","l","o","b","a","l","Q","u","e","r","y",
        ".","j","s">>,
    <<"s","r","c","/","u","t","i","l","s","/","g","l","o","b","a","l","Q","u","e","r","y",".",
        "j","s">>,
    <<"s","r","c","/","m","o","d","e","l","s","/","u","s","e","r",".","t","s">>,
    <<"R","E","A","D","M","E",".","m","d">> }

BackendFiles ==
  { File(p, tpl, kind) : p \in BackendPaths, tpl \in BOOLEAN, kind \in {"model", Undefined} }

BackendInit ==
  /\ PipelineIdle
  /\ ClientInit
  /\ CleanerIdle
  /\ DiagramsInit
  /\ SplicerIdle

\* one turn of the loop over architecture.files
GenerateBackendFile ==
  /\ dispatched.n < MaxDispatch
  /\ \E opts \in BackendOptions, file \in BackendFiles :
       dispatched' = [ n |-> dispatched.n + 1, options |-> opts, file |-> file,
                       branch |-> generateBackendBranch(file) ]
  /\ UNCHANGED <<wrapped, regenerations, pipeline, client, cleaner, diagrams, splicer>>

BackendSpec == BackendInit /\ [][GenerateBackendFile]_vars

(***************************************************************************)
(* generateDiagram                                                         *)
(***************************************************************************)
\* generateDiagram calls
MaxDiagrams == 2

\* String.prototype.startsWith
StartsWith(s, t) == At(s, 1, t)

\* s.replace(t, ''): the first occurrence of t is removed
ReplaceFirst(s, t) ==
  IF \E k \in 1..Len(s) : At(s, k, t)
    THEN Remove(s, CHOOSE k \in 1..Len(s) : At(s, k, t) /\ \A h \in 1..(k - 1) : ~At(s, h, t),
                Len(t))
    ELSE s

\* filePath.split('.').pop()
LastDotPart(p) ==
  IF \E k \in 1..Len(p) : p[k] = "."
    THEN SubSeq(p, 1 + CHOOSE k \in 1..Len(p) :
                         p[k] = "." /\ \A j \in (k + 1)..Len(p) : p[j] # ".",
                Len(p))
    ELSE p

\* _getFileType of the diagram service
_getFileType(filePath) ==
  LET ext == ToLowerCase(LastDotPart(filePath)) IN
  IF Includes(filePath, <<"/","m","o","d","e","l","s","/">>) THEN <<"m","o","d","e","l">>
  ELSE IF Includes(filePath, <<"/","c","o","n","t","r","o","l","l","e","r","s",
      "/">>) THEN <<"c","o","n","t","r","o","l","l","e","r">>
  ELSE IF Includes(filePath, <<"/","r","o","u","t","e","s","/">>) THEN <<"r","o","u","t","e">>
  ELSE IF Includes(filePath, <<"/","c","o","n","f","i","g","/">>) THEN <<"c","o","n","f","i","g">>
  ELSE IF Includes(filePath, <<"/","m","i","d","d","l","e","w","a","r","e","/">>) THEN <<"m",
      "i","d","d","l","e","w","a","r","e">>
  ELSE IF ext = <<"j","s">> THEN <<"j","a","v","a","s","c","r","i","p","t">>
  ELSE IF ext = <<"j","s","o","n">> THEN <<"j","s","o","n">>
  ELSE IF ext = <<"m","d">> THEN <<"m","a","r","k","d","o","w","n">>
  ELSE ext

\* the nodes pushed for the folders 1 .. k: for every folder, in order, one
\* node for every file whose path starts with the folder's path and "/"
RECURSIVE FolderNodes(_, _)
FolderNodes(arch, k) ==
  IF k = 0 THEN <<>>
  ELSE LET before == FolderNodes(arch, k - 1)
           inside == SelectSeq(arch.files,
                               LAMBDA file : StartsWith(file.path,
                                                        arch.folders[k].path \o <<"/">>))
       IN before \o [j \in 1..Len(inside) |->
                       [ id |-> <<"file", Len(before) + j - 1>>,
                         label |-> basename(inside[j].path),
                         type |-> _getFileType(inside[j].path),
                         parent |-> <<"group", k - 1>> ]]

\* the edges of a list of pairs of nodes, numbered from the given length on
Connections(pairs, from, label) ==
  [k \in 1..Len(pairs) |->
     [ id |-> <<"edge", from + k - 1>>, source |-> pairs[k][1].id,
       target |-> pairs[k][2].id, label |-> label ]]

\* every pair of a node of as and a node of bs, as the nested forEach
\* visits them
Pairs(as, bs) ==
  [k \in 1..(Len(as) * Len(bs)) |->
     << as[((k - 1) \div Len(bs)) + 1], bs[((k - 1) % Len(bs)) + 1] >>]

\* _generateConnections
_generateConnections(nodes) ==
  LET models == SelectSeq(nodes, LAMBDA node : node.type = <<"m","o","d","e","l">>)
      controllers == SelectSeq(nodes, LAMBDA node : node.type = <<"c","o","n","t","r","o","l",
          "l","e","r">>)
      routes == SelectSeq(nodes, LAMBDA node : node.type = <<"r","o","u","t","e">>)
      middlewares == SelectSeq(nodes, LAMBDA node : node.type = <<"m","i","d","d","l","e","w",
          "a","r","e">>)
      uses == SelectSeq(Pairs(models, controllers),
                        LAMBDA pair : Includes(ToLowerCase(pair[2].label),
                                               ReplaceFirst(ToLowerCase(pair[1].label), DotJs)))
      used == SelectSeq(Pairs(controllers, routes),
                        LAMBDA pair : Includes(ToLowerCase(pair[2].label),
                                               ReplaceFirst(ToLowerCase(pair[1].label),
                                                            <<"c","o","n","t","r","o","l","l",
                                                                "e","r",".","j","s">>)))
      protects == Pairs(middlewares, routes)
  IN Connections(uses, 0, "usa")
       \o Connections(used, Len(uses), "es usado por")
       \o Connections(protects, Len(uses) + Len(used), "protege")

\* generateDiagram(architecture)
generateDiagram(arch) ==
  LET groups == [k \in 1..Len(arch.folders) |->
                   [id |-> <<"group", k - 1>>, label |-> arch.folders[k].path]]
      inFolders == FolderNodes(arch, Len(arch.folders))
      others == SelectSeq(arch.files,
                          LAMBDA file : ~\E k \in 1..Len(inFolders) :
                                           inFolders[k].label = basename(file.path))
      nodes == inFolders \o [j \in 1..Len(others) |->
                               [ id |-> <<"file", Len(inFolders) + j - 1>>,
                                 label |-> basename(others[j].path),
                                 type |-> _getFileType(others[j].path) ]]
  IN [nodes |-> nodes, edges |-> _generateConnections(nodes), groups |-> groups]

\* the architectures diagrams are generated of: folders that are nested or
\* not, files inside them and beside them, two of them with one basename
DrawnFolders ==
  { <<>>,
    << Folder(<<"s","r","c">>) >>,
    << Folder(<<"s","r","c">>), Folder(<<"s","r","c","/","m","o","d","e","l","s">>) >>,
    << Folder(<<"s","r","c","/","m","o","d","e","l","s">>), Folder(<<"s","r","c","/","c","o",
        "n","t","r","o","l","l","e","r","s">>), Folder(<<"s","r","c","/","r","o","u","t","e",
        "s">>) >>,
    << Folder(<<"s","r","c","/","m","i","d","d","l","e","w","a","r","e">>), Folder(<<"s","r",
        "c","/","r","o","u","t","e","s">>) >> }

DrawnPaths ==
  << <<"s","r","c","/","m","o","d","e","l","s","/","u","s","e","r",".","j","s">>,
     <<"s","r","c","/","c","o","n","t","r","o","l","l","e","r","s","/","u","s","e","r","C","o",
         "n","t","r","o","l","l","e","r",".","j","s">>,
     <<"s","r","c","/","r","o","u","t","e","s","/","u","s","e","r","R","o","u","t","e","s",".",
         "j","s">>,
     <<"s","r","c","/","m","i","d","d","l","e","w","a","r","e","/","a","u","t","h",".","j","s">>,
     <<"s","r","c","/","i","n","d","e","x",".","j","s">>,
     <<"i","n","d","e","x",".","j","s">>,
     <<"R","E","A","D","M","E",".","m","d">> >>

DrawnArchitectures ==
  { [ folders |-> folders,
      files |-> LET chosen == SelectSeq([k \in 1..Len(DrawnPaths) |-> k],
                                        LAMBDA k : k \in picked)
                IN [j \in 1..Len(chosen) |-> File(DrawnPaths[chosen[j]], FALSE, Undefined)] ] :
      folders \in DrawnFolders, picked \in SUBSET (1..Len(DrawnPaths)) }

DrawInit ==
  /\ DiagramsInit
  /\ PipelineIdle
  /\ ClientInit
  /\ CleanerIdle
  /\ SplicerIdle

GenerateDiagram ==
  /\ drawn.n < MaxDiagrams
  /\ \E arch \in DrawnArchitectures :
       drawn' = [n |-> drawn.n + 1, architecture |-> arch, diagram |-> generateDiagram(arch)]
  /\ UNCHANGED <<collection, saved, savedProjects, config, pipeline, client, cleaner,
                 splicer, backend>>

DrawSpec == DrawInit /\ [][GenerateDiagram]_vars

(***************************************************************************)
(* Phase 1 when generateArchitecture fails: the default architecture       *)
(***************************************************************************)
\* descriptions that name a kind of project
DefaultDescriptions ==
  { <<"U","n"," ","B","l","o","g">>,
    <<"A","P","I"," ","d","e"," ","n","o","t","a","s">>,
    <<"e","c","o","m","m","e","r","c","e">>,
    <<"A"," ","c","m","s"," ","f","o","r"," ","s","c","h","o","o","l","s">>,
    <<"A"," ","b","o","o","k","i","n","g"," ","A","P","I">>,
    <<"i","n","v","e","n","t","o","r","y"," ","s","e","r","v","i","c","e">>,
    <<"S","i","s","t","e","m","a"," ","d","e"," ","r","e","s","e","r","v","a","s"," ","d","e",
        " ","h","o","t","e","l">>,
    <<"B","l","o","g"," ","d","e"," ","u","n","a"," ","t","i","e","n","d","a">> }

\* a first run stands at phase 1
DefaultInit ==
  /\ description \in DefaultDescriptions
  /\ options \in OptionSets
  /\ recoveryFile = NoObject
  /\ dispatched = [n |-> 0]
  /\ wrapped = [n |-> 0]
  /\ regenerations = <<>>
  /\ diskFiles = {}
  /\ diskFolders = {}
  /\ diagramJson = NoObject
  /\ zipFile = NoObject
  /\ repository = FALSE
  /\ pc = "acquire"
  /\ recoveryState = NoObject
  /\ architecture = NoObject
  /\ fileCounter = 0
  /\ continueGeneration = FALSE
  /\ generatedFiles = <<>>
  /\ categories = <<>>
  /\ starts = <<>>
  /\ success = TRUE
  /\ cat = 0
  /\ i = 0
  /\ error = Null
  /\ diagram = Null
  /\ diagramId = Null
  /\ zipPath = Null
  /\ result = NoObject
  /\ runs = 1
  /\ faults = 0
  /\ attempts = <<>>
  /\ runFaults = {}
  /\ stopped = FALSE
  /\ ClientInit
  /\ CleanerIdle
  /\ DiagramsInit
  /\ SplicerIdle

DefaultNext ==
  AcquireDefaultArchitecture /\ UNCHANGED <<client, cleaner, diagrams, splicer, backend>>

DefaultSpec == DefaultInit /\ [][DefaultNext]_vars

(***************************************************************************)
(* The template wrappers: generateController, generateRoute, generateApp   *)
(* and generateGlobalQuery                                                 *)
(***************************************************************************)
\* calls of a wrapper
MaxWraps == 2

IaGeneratedCode == <<"/","/"," ","[","I","A","_","G","E","N","E","R","A","T","E","D","_","C",
    "O","D","E","]">>

\* the replacement text of String.prototype.replace: $$ stands for $, $& for
\* the match, $U+0060 for the text before the match and $' for the text after
\* it; a pattern that is a string has no groups, so $1 ... stand for
\* themselves
RECURSIVE GetSubstitution(_, _, _, _)
GetSubstitution(replacement, matched, before, after) ==
  IF replacement = <<>> THEN <<>>
  ELSE IF Len(replacement) >= 2 /\ replacement[1] = "$"
    THEN LET rest == GetSubstitution(SubSeq(replacement, 3, Len(replacement)),
                                     matched, before, after)
         IN IF replacement[2] = "$" THEN <<"$">> \o rest
            ELSE IF replacement[2] = "&" THEN matched \o rest
            ELSE IF replacement[2] = Backtick THEN before \o rest
            ELSE IF replacement[2] = "'" THEN after \o rest
            ELSE <<"$">> \o GetSubstitution(Tail(replacement), matched, before, after)
  ELSE <<replacement[1]>> \o GetSubstitution(Tail(replacement), matched, before, after)

\* text.replace(searchValue, replacement) for a searchValue that is a string
StringReplace(text, searchValue, replacement) ==
  IF \E k \in 1..Len(text) : At(text, k, searchValue)
    THEN LET k == CHOOSE k \in 1..Len(text) :
                    At(text, k, searchValue) /\ \A h \in 1..(k - 1) : ~At(text, h, searchValue)
             before == SubSeq(text, 1, k - 1)
             after == SubSeq(text, k + Len(searchValue), Len(text))
         IN before \o GetSubstitution(replacement, searchValue, before, after) \o after
    ELSE text

\* what the _generateAdditional...Code methods return when generateCode
\* throws
NoAdditionalCode == <<"/","/"," ","N","o"," ","s","e"," ","p","u","d","o"," ","g","e","n","e",
    "r","a","r"," ","c","ó","d","i","g","o"," ","a","d","i","c","i","o","n","a","l">>

\* the texts processTemplate renders: the marker once, twice, not at all
RenderedTemplates ==
  { <<"a",";","\n">> \o IaGeneratedCode \o <<"\n","b",";">>,
    IaGeneratedCode \o <<"\n">> \o IaGeneratedCode,
    <<"a",";","\n","b",";">> }

\* the code generateCode returns for the fragment request
Fragments ==
  { <<"f","(",")",";">>,
    <<>>,
    <<"'","$","'","+","x">>,
    <<"/","^","a","$","$","/">>,
    <<"$","&">>,
    <<"$", Backtick, "x">> }

Wrappers == {"generateController", "generateRoute", "generateApp", "generateGlobalQuery"}

WrapInit ==
  /\ PipelineIdle
  /\ ClientInit
  /\ CleanerIdle
  /\ DiagramsInit
  /\ SplicerIdle

\* a wrapper whose template loads: the fragment is requested (a failure of
\* the request is answered by a comment), the template is rendered and the
\* marker is replaced
GenerateFromTemplate ==
  /\ wrapped.n < MaxWraps
  /\ \E wrapper \in Wrappers, processedTemplate \in RenderedTemplates :
       \/ \E code \in Fragments :
            wrapped' = [ n |-> wrapped.n + 1, wrapper |-> wrapper, template |-> TRUE,
                         processedTemplate |-> processedTemplate,
                         failed |-> FALSE, code |-> code, outcome |-> "returns",
                         result |-> StringReplace(processedTemplate, IaGeneratedCode, code) ]
       \/ wrapped' = [ n |-> wrapped.n + 1, wrapper |-> wrapper, template |-> TRUE,
                       processedTemplate |-> processedTemplate,
                       failed |-> TRUE, code |-> <<>>, outcome |-> "returns",
                       result |-> StringReplace(processedTemplate, IaGeneratedCode,
                                                NoAdditionalCode) ]
  /\ UNCHANGED <<dispatched, regenerations, pipeline, client, cleaner, diagrams, splicer>>

\* generateGlobalQuery when the template does not load: the whole file is
\* requested from the oracle, and the error of the template is thrown when
\* that request fails too
GenerateGlobalQueryWithoutTemplate ==
  /\ wrapped.n < MaxWraps
  /\ \/ \E code \in Fragments :
          wrapped' = [ n |-> wrapped.n + 1, wrapper |-> "generateGlobalQuery",
                       template |-> FALSE, processedTemplate |-> <<>>,
                       failed |-> FALSE, code |-> code, outcome |-> "returns",
                       result |-> code ]
     \/ wrapped' = [ n |-> wrapped.n + 1, wrapper |-> "generateGlobalQuery",
                     template |-> FALSE, processedTemplate |-> <<>>,
                     failed |-> TRUE, code |-> <<>>, outcome |-> "throws",
                     result |-> <<>> ]
  /\ UNCHANGED <<dispatched, regenerations, pipeline, client, cleaner, diagrams, splicer>>

WrapNext ==
  \/ GenerateFromTemplate
  \/ GenerateGlobalQueryWithoutTemplate

WrapSpec == WrapInit /\ [][WrapNext]_vars

(***************************************************************************)
(* generateFromSaved and regenerateProjectFromDiagram                      *)
(***************************************************************************)
\* regenerations of stored designs
MaxRegenerations == 2

\* the paths generateBackend writes for an architecture: every file of it,
\* and routes/globalQuery.js when the option asks for it and no file of the
\* architecture is one
generateBackendPaths(arch, opts) ==
  {arch.files[k].path : k \in 1..Len(arch.files)}
    \cup (IF /\ "includeGlobalQuery" \in DOMAIN opts
             /\ opts.includeGlobalQuery
             /\ ~\E f \in Range(arch.files) :
                   Includes(f.path, GlobalQueryJs) \/ Includes(f.path, GlobalDashQueryJs)
            THEN {RoutesFolder \o <<"/">> \o GlobalQueryJs}
            ELSE {})

\* generateBackend(description, outputPath, options): the architecture is
\* requested from the oracle; a failed request is thrown on
generateBackend(op, name, stored, opts) ==
  \/ \E reply \in ArchPool :
       regenerations' =
         Append(regenerations,
                [ op |-> op, name |-> name, stored |-> stored, requested |-> TRUE,
                  outcome |-> "returns", architecture |-> reply,
                  files |-> generateBackendPaths(reply, opts) ])
  \/ regenerations' =
       Append(regenerations,
              [ op |-> op, name |-> name, stored |-> stored, requested |-> TRUE,
                outcome |-> "throws", architecture |-> NoObject, files |-> {} ])

\* generateFromSaved(projectName) of a saved configuration
generateFromSaved ==
  /\ Len(regenerations) < MaxRegenerations
  /\ \E projectName \in DOMAIN savedProjects :
       LET projectConfig == savedProjects[projectName] IN
       generateBackend("generateFromSaved", projectName, projectConfig.architecture,
                       projectConfig.options)
  /\ UNCHANGED <<dispatched, wrapped, pipeline, client, cleaner, diagrams, splicer>>

\* regenerateProjectFromDiagram(projectName) of a stored diagram
regenerateProjectFromDiagram ==
  /\ Len(regenerations) < MaxRegenerations
  /\ \E k \in 1..Len(collection) :
       LET savedProject == collection[findByName(collection, collection[k].name)] IN
       generateBackend("regenerateProjectFromDiagram", "diagram",
                       savedProject.architecture, savedProject.options)
  /\ UNCHANGED <<dispatched, wrapped, pipeline, client, cleaner, diagrams, splicer>>

RegenerateNext ==
  \/ generateFromSaved
  \/ regenerateProjectFromDiagram

\* one saved configuration and one stored diagram
RegenerateInit ==
  /\ \E design \in ProjectDesigns :
       savedProjects = ("shop" :> JsonConfig([name |-> "shop", createdAt |-> 1] @@ design))
  /\ \E payload \in DiagramPayloads :
       collection = << [_id |-> 1, name |-> <<"a","p","i">>,
                        options |-> [includeGlobalQuery |-> TRUE]] @@ payload >>
  /\ saved = [n |-> 0, record |-> NoObject, returned |-> NoObject, found |-> NoObject]
  /\ config = [n |-> 0, given |-> NoObject, returned |-> NoObject, loaded |-> NoObject]
  /\ drawn = [n |-> 0]
  /\ PipelineIdle
  /\ ClientInit
  /\ CleanerIdle
  /\ SplicerIdle

RegenerateSpec == RegenerateInit /\ [][RegenerateNext]_vars

(***************************************************************************)
(* Properties                                                              *)
(***************************************************************************)
\* the slots <<category, index>> a run walks, in order: for each category
\* whose start offset is below its length, the indexes from the offset on
CategorySlots(c, cats, st) ==
  IF st[c] < Len(cats[c])
    THEN [k \in 1..(Len(cats[c]) - st[c]) |-> <<c, st[c] + k - 1>>]
    ELSE <<>>

Slots(cats, st) ==
  CategorySlots(1, cats, st) \o CategorySlots(2, cats, st) \o CategorySlots(3, cats, st)
    \o CategorySlots(4, cats, st) \o CategorySlots(5, cats, st)

IsPrefix(p, q) == Len(p) <= Len(q) /\ SubSeq(q, 1, Len(p)) = p

\* the category a recovery record names
RecordedCategory(rec) == CHOOSE c \in 1..5 : CategoryNames[c] = rec.currentCategory

\* the path of the file a recovery record names
RecordedPath(rec) ==
  rec.architecture.files[
    Categorize(rec.architecture)[RecordedCategory(rec)][rec.currentCategoryIndex + 1]].path

\* the run at hand is past the planning of phase 4
Planned == categories # <<>>

\* C1: within one run the files are attempted in the order configuration,
\* models, controllers, routes, remaining, and inside a category in the order
\* of architecture.files: the attempts made so far are always an initial
\* part of the walk over the five lists (all of them in a fresh run, from
\* the start offsets in a resumed one), and each list is increasing in the
\* positions of architecture.files
C1_CategoryOrder ==
  Planned =>
    /\ IsPrefix(attempts, Slots(categories, starts))
    /\ \A c \in 1..5 : \A a, b \in 1..Len(categories[c]) :
         a < b => categories[c][a] < categories[c][b]
    /\ ~continueGeneration => starts = <<0, 0, 0, 0, 0>>

\* a fresh run has attempted files of three categories, two of them of the
\* same category
C1_Witness ==
  /\ Planned
  /\ ~continueGeneration
  /\ Len(attempts) >= 4
  /\ \E a, b \in 1..Len(attempts) : a # b /\ attempts[a][1] = attempts[b][1]
  /\ Cardinality({attempts[a][1] : a \in 1..Len(attempts)}) >= 3

\* C2: a run that resumes from a record (generating_files, c, i) generates
\* first the file after index i of c (or the first file of the next
\* non-empty category) and generates no file of a category before c and no
\* file of c at an index <= i
C2_ResumeFromRecordedIndex ==
  (Planned /\ continueGeneration /\ recoveryState.phase = "generating_files") =>
    LET c == RecordedCategory(recoveryState)
        i0 == recoveryState.currentCategoryIndex
        later == SelectSeq(Slots(categories, <<0, 0, 0, 0, 0>>),
                           LAMBDA slot : slot[1] > c \/ (slot[1] = c /\ slot[2] > i0))
    IN /\ \A a \in 1..Len(attempts) :
            attempts[a][1] > c \/ (attempts[a][1] = c /\ attempts[a][2] > i0)
       /\ attempts # <<>> => attempts[1] = later[1]

\* C3: with continueOnError false, a run stopped part-way (killed, or paused
\* by a file error) and then re-invoked with the same arguments and no
\* collaborator failing ends with every file of architecture.files on disk
C3_IdempotentResume ==
  ( /\ pc = "returned"
    /\ ~options.continueOnError
    /\ stopped
    /\ continueGeneration
    /\ runFaults = {}
    /\ result.success ) =>
    \A f \in Range(architecture.files) : f.path \in diskFiles

C5_PauseOnError ==
  /\ [](( /\ ~options.continueOnError
          /\ "file" \in runFaults
          /\ pc \notin {"file_error", "killed"} ) =>
          /\ ~success
          /\ attempts[Len(attempts)] = <<cat, i>>
          /\ recoveryFile.phase = "generating_files"
          /\ recoveryFile.currentCategory = CategoryNames[cat]
          /\ recoveryFile.currentCategoryIndex = i
          /\ recoveryFile.lastError = error
          /\ error \in ErrorMessages
          /\ pc = "returned" => ~result.success)
  /\ [][ ( /\ ~options.continueOnError
           /\ "file" \in runFaults
           /\ pc \notin {"file_error", "killed", "returned"}
           /\ pc' # "killed" ) =>
           /\ attempts' = attempts
           /\ generatedFiles' = generatedFiles
           /\ diskFiles' = diskFiles ]_vars

\* a paused run has returned although files were left to generate
C5_Witness ==
  /\ pc = "returned"
  /\ ~options.continueOnError
  /\ "file" \in runFaults
  /\ ~result.success
  /\ Len(attempts) < Len(Slots(categories, starts))

\* C6: with continueOnError true, a fresh run that returns has attempted
\* every file of architecture.files exactly once, whatever failed on the
\* way, and returns success
C6_ContinueOnError ==
  (options.continueOnError /\ pc = "returned" /\ ~continueGeneration) =>
    /\ result.success
    /\ \A k \in 1..Len(architecture.files) :
         Cardinality({a \in 1..Len(attempts) :
                        categories[attempts[a][1]][attempts[a][2] + 1] = k}) = 1

\* what the catch does guarantee under continueOnError: a run that returns
\* has walked every slot of the five lists from its start offsets, once and
\* in order, and returns success; every catch of a file failure writes
\* (generating_files, c, i, lastError) to the recovery file before the loop
\* goes on
ContinueOnErrorWalksEverySlot ==
  /\ []( (options.continueOnError /\ pc = "returned") =>
           /\ result.success
           /\ attempts = Slots(categories, starts) )
  /\ [][ ( /\ options.continueOnError
           /\ pc = "file_error"
           /\ pc' \notin {"file_error", "killed"} ) =>
           /\ recoveryFile'.phase = "generating_files"
           /\ recoveryFile'.currentCategory = CategoryNames[cat]
           /\ recoveryFile'.currentCategoryIndex = i
           /\ recoveryFile'.lastError = error
           /\ pc' \in {"generate", "global_query"}
           /\ success' ]_vars

\* C7: whenever .recovery.json holds (generating_files, c, i), the file at
\* index i of category c is on disk and its path is in generatedFiles
C7_CheckpointAfterFile ==
  (recoveryFile # NoObject /\ recoveryFile.phase = "generating_files") =>
    /\ RecordedPath(recoveryFile) \in diskFiles
    /\ RecordedPath(recoveryFile) \in Range(recoveryFile.generatedFiles)

\* C8: fileCounter never exceeds totalFiles, and equals it when a run
\* returns success
C8_FileCounter ==
  architecture # NoObject =>
    /\ fileCounter <= Len(architecture.files)
    /\ (pc = "returned" /\ result.success) => fileCounter = Len(architecture.files)

\* C9: every file of architecture.files is in exactly one of the five
\* category lists, and a fresh run without failures that returns has
\* generated each file exactly once
C9_CategoriesPartition ==
  Planned =>
    /\ \A k \in 1..Len(architecture.files) :
         Cardinality({c \in 1..5 : k \in Range(categories[c])}) = 1
    /\ (pc = "returned" /\ ~continueGeneration /\ runFaults = {}) =>
         \A k \in 1..Len(architecture.files) :
           Cardinality({a \in 1..Len(attempts) :
                          categories[attempts[a][1]][attempts[a][2] + 1] = k}) = 1

\* C10: after generateArchitecture has failed the run goes on with the
\* default architecture of the description: it is never paused by that
\* failure, and when nothing else fails it returns success with every file
\* of the default architecture generated
C10_DefaultArchitectureFallback ==
  "architecture" \in runFaults =>
    /\ architecture = _getDefaultArchitecture(description, options)
    /\ runFaults = {"architecture"} => success
    /\ (pc = "returned" /\ runFaults = {"architecture"}) =>
         /\ result.success
         /\ recoveryFile = NoObject
         /\ \A k \in 1..Len(_getDefaultArchitecture(description, options).files) :
              \E a \in 1..Len(attempts) :
                categories[attempts[a][1]][attempts[a][2] + 1] = k

\* a run whose architecture request failed has returned success with the
\* default architecture of a description whose project type is detected
C10_Witness ==
  /\ pc = "returned"
  /\ runFaults = {"architecture"}
  /\ result.success
  /\ _detectProjectType(description) # NoObject
  /\ Len(architecture.files) >= 20

\* the lines of a text
RECURSIVE SplitLines(_)
SplitLines(s) ==
  IF \E k \in 1..Len(s) : s[k] = Newline
    THEN LET k == SkipChars(s, 1, Range(s) \ {Newline})
         IN <<SubSeq(s, 1, k - 1)>> \o SplitLines(SubSeq(s, k + 1, Len(s)))
    ELSE <<s>>

SlashSlashFilepath == <<"/","/"," ">> \o FilepathColon

\* C16: whatever the LLM replied, the code generateCode returns has no line
\* that is a triple-backtick fence, no line that begins with a fence followed
\* by a language tag, and no line that begins with "// filepath:"
C16_FenceFreeOutput ==
  cleaned # Null =>
    \A line \in Range(SplitLines(cleaned)) :
      /\ line # Fence
      /\ ~(At(line, 1, Fence) /\ Len(line) > 3 /\ line[4] \in WordChars)
      /\ ~At(line, 1, SlashSlashFilepath)

\* the part of C16 that does hold: no line of the returned code begins with
\* "// filepath:"
FilepathLinesRemoved ==
  cleaned # Null =>
    \A line \in Range(SplitLines(cleaned)) : ~At(line, 1, SlashSlashFilepath)

(***************************************************************************)
(* The oracle client (ClientSpec)                                          *)
(***************************************************************************)
\* C11: an operation of the oracle client whose LLM request suffered a
\* transport failure throws; it never returns a value
C11_TransportFailureSurfaces ==
  call # NoObject /\ call.transport => call.outcome = "throws"

\* what holds of C11: generateArchitecture and generateCode throw when
\* their request fails
TransportFailureRethrown ==
  /\ call # NoObject
  /\ call.transport
  /\ call.op \in {"generateArchitecture", "generateCode"}
  => call.outcome = "throws"

\* an architecture has a folder of this name, at the top level or nested
HasFolder(arch, name) ==
  \E f \in Range(arch.folders) :
    Includes(<<"/">> \o f.path \o <<"/">>, <<"/">> \o name \o <<"/">>)

\* an architecture has a file of this path
HasFile(arch, p) == \E f \in Range(arch.files) : f.path = p

\* the components C12 lists
Essentials(arch) ==
  /\ HasFolder(arch, ModelsFolder)
  /\ HasFolder(arch, ControllersFolder)
  /\ HasFolder(arch, RoutesFolder)
  /\ HasFolder(arch, ConfigFolder)
  /\ HasFile(arch, AppJs) \/ HasFile(arch, IndexJs) \/ HasFile(arch, ServerJs)
  /\ HasFile(arch, PackageJson)
  /\ HasFile(arch, DotEnvExample)

\* C12: the architecture validateArchitecture returns has a models, a
\* controllers, a routes and a config folder, an entry point, package.json
\* and .env.example
C12_EssentialsAfterRepair ==
  call # NoObject /\ call.op = "validateArchitecture" => Essentials(call.output)

\* what holds of C12: the four folders are there after every return
FoldersAfterRepair ==
  call # NoObject /\ call.op = "validateArchitecture"
  => /\ HasFolder(call.output, ModelsFolder)
     /\ HasFolder(call.output, ControllersFolder)
     /\ HasFolder(call.output, RoutesFolder)
     /\ HasFolder(call.output, ConfigFolder)

\* C13: validateArchitecture returns an architecture that already has the
\* essentials and the three files of every extracted entity with its
\* folders and files unchanged, and applying it to what it returned changes
\* nothing
C13_RepairMinimality ==
  call # NoObject /\ call.op = "validateArchitecture" /\ ~call.transport
  => /\ ( /\ Essentials(call.input.architecture)
          /\ \A f \in Range(AllEntityFiles(call.input.entities)) :
               HasFile(call.input.architecture, f.path) )
        => /\ call.output.folders = call.input.architecture.folders
           /\ call.output.files = call.input.architecture.files
     /\ validateArchitecture(call.output, call.input.entities) = call.output

\* C14: the folders and the files of the input of validateArchitecture are
\* prefixes of the folders and the files of what it returns
C14_AppendOnly ==
  call # NoObject /\ call.op = "validateArchitecture"
  => /\ IsPrefix(call.input.architecture.folders, call.output.folders)
     /\ IsPrefix(call.input.architecture.files, call.output.files)

\* the entity-extraction request failed after folders were appended to an
\* architecture that had folders
C14_Witness ==
  /\ call # NoObject
  /\ call.op = "validateArchitecture"
  /\ call.transport
  /\ call.input.architecture.folders # <<>>
  /\ Len(call.output.folders) > Len(call.input.architecture.folders)

\* the path has the role C15 calls cacheable: the auth middleware, the
\* database configuration, or a file under utils/ or helpers/
CacheableRole(filePath) ==
  LET p == <<"/">> \o filePath IN
  \/ Includes(p, <<"/","m","i","d","d","l","e","w","a","r","e","/","a","u","t","h",".","j","s">>)
  \/ Includes(p, <<"/","c","o","n","f","i","g","/","d","a","t","a","b","a","s","e",".","j","s">>)
  \/ Includes(p, <<"/","u","t","i","l","s","/">>)
  \/ Includes(p, <<"/","h","e","l","p","e","r","s","/">>)

\* the triple of C15
Triple(input) ==
  << basename(dirname(input.filePath)), basename(input.filePath),
     input.context.database >>

\* C15: a generateCode call that follows a successful generateCode for a
\* cacheable path with the same (parent directory, file name, database)
\* returns the same string and issues no LLM request
C15_CacheCorrectness ==
  [][ /\ call # NoObject
      /\ call.op = "generateCode"
      /\ call.outcome = "returns"
      /\ CacheableRole(call.input.filePath)
      /\ call'.n = call.n + 1
      /\ call'.op = "generateCode"
      /\ Triple(call'.input) = Triple(call.input)
      => /\ call'.outcome = "returns"
         /\ call'.output = call.output
         /\ requests' = requests ]_vars

\* what holds of C15: the same for the paths _isCacheable accepts
CacheHitAfterStore ==
  [][ /\ call # NoObject
      /\ call.op = "generateCode"
      /\ call.outcome = "returns"
      /\ _isCacheable(call.input.filePath)
      /\ call'.n = call.n + 1
      /\ call'.op = "generateCode"
      /\ Triple(call'.input) = Triple(call.input)
      => /\ call'.outcome = "returns"
         /\ call'.output = call.output
         /\ requests' = requests ]_vars

\* every key of the cache keeps its code
CacheEntriesKept ==
  [][ \A key \in DOMAIN codeCache :
        key \in DOMAIN codeCache' /\ codeCache'[key] = codeCache[key] ]_vars

(***************************************************************************)
(* The diagram phase of generateCompleteProject (Spec)                     *)
(***************************************************************************)
\* C17: when the repository's save fails, the run goes on with the success
\* flag it had, diagram.json holds the architecture, the diagram and
\* createdAt, and the run returns diagramId = null
C17_DiagramSaveFailure ==
  /\ [][ pc = "diagram" /\ "repository" \in runFaults' /\ "repository" \notin runFaults
         => /\ pc' = "zip"
            /\ success' = success
            /\ diagramId' = Null
            /\ DOMAIN diagramJson' = {"architecture", "diagram", "createdAt"}
            /\ diagramJson'.architecture = architecture
            /\ diagramJson'.diagram = diagram' ]_vars
  /\ [] ( pc = "returned" /\ "repository" \in runFaults
          => /\ result.diagramId = Null
             /\ result.success = success
             /\ diagramJson # NoObject
             /\ diagramJson.architecture = architecture
             /\ diagramJson.diagram = diagram )

\* a run whose save failed has returned, successful, with files generated
C17_Witness ==
  /\ pc = "returned"
  /\ "repository" \in runFaults
  /\ result.success
  /\ result.generatedFiles # <<>>
  /\ diagramJson # NoObject

(***************************************************************************)
(* The diagram repository (DiagramSpec)                                    *)
(***************************************************************************)
\* the stored records named exactly as the record of the save
ExactlyNamed(documents, name) == {k \in 1..Len(documents) : documents[k].name = name}

\* C18: saveDiagram(record) replaces a stored record, keeping its identity,
\* if and only if a stored record is named exactly record.name, and creates
\* a record otherwise; the records of another name stay as they are, and no
\* two stored records have the same name
C18_ReplaceIffSameName ==
  [][ saved'.n = saved.n + 1
      => LET record == saved'.record
             exact == ExactlyNamed(collection, record.name)
         IN
         /\ exact # {}
            => /\ Len(collection') = Len(collection)
               /\ \E k \in exact :
                    /\ collection'[k]._id = collection[k]._id
                    /\ collection'[k].name = record.name
                    /\ collection'[k].description = record.description
                    /\ collection'[k].architecture = record.architecture
                    /\ collection'[k].diagram = record.diagram
         /\ exact = {}
            => /\ Len(collection') = Len(collection) + 1
               /\ collection'[Len(collection')].name = record.name
         /\ \A k \in 1..Len(collection) :
              collection[k].name # record.name => collection'[k] = collection[k]
         /\ \A j, k \in 1..Len(collection') :
              collection'[j].name = collection'[k].name => j = k ]_vars

\* what holds of C18: no two stored records have the same name, the
\* identities are kept, and a record named exactly record.name, if there is
\* one and it is the first match, is replaced in place
UniqueNames ==
  \A j, k \in 1..Len(collection) :
    (collection[j].name = collection[k].name \/ collection[j]._id = collection[k]._id)
      => j = k

\* C19: findDiagramByName(r.name) after saveDiagram(r) returns a document
\* with the name, the description and the architecture of r and the nodes
\* and edges of r.diagram
C19_DiagramRoundTrip ==
  /\ saved.found # NoObject
  /\ saved.found.name = saved.record.name
  => /\ saved.found.document # NoObject
     /\ saved.found.document.name = saved.record.name
     /\ saved.found.document.description = saved.record.description
     /\ saved.found.document.architecture = saved.record.architecture
     /\ saved.found.document.diagram.nodes = saved.record.diagram.nodes
     /\ saved.found.document.diagram.edges = saved.record.diagram.edges

\* what holds of C19: the document found has the description, the
\* architecture and the diagram of r
RoundTripOfPayload ==
  /\ saved.found # NoObject
  /\ saved.found.name = saved.record.name
  => /\ saved.found.document # NoObject
     /\ saved.found.document.description = saved.record.description
     /\ saved.found.document.architecture = saved.record.architecture
     /\ saved.found.document.diagram = saved.record.diagram

(***************************************************************************)
(* The globalQuery post-phase (Spec) and its splice (SpliceSpec)           *)
(***************************************************************************)
\* C20: a run with includeGlobalQuery on an architecture without a
\* globalQuery file that returns success leaves routes/globalQuery.js in
\* the output directory, registered in app.js
C20_GlobalQueryCrossWiring ==
  /\ pc = "returned"
  /\ result.success
  /\ options.includeGlobalQuery
  /\ ~globalQueryExists
  => RoutesGlobalQueryJs \in diskFiles

\* what holds of C20 in the pipeline: the same when the post-phase did not
\* throw
GlobalQueryFileUnlessThrown ==
  /\ pc = "returned"
  /\ result.success
  /\ options.includeGlobalQuery
  /\ ~globalQueryExists
  /\ "globalQuery" \notin runFaults
  => /\ RoutesGlobalQueryJs \in diskFiles
     /\ RoutesGlobalQueryJs \in Range(result.generatedFiles)

GlobalQueryLine ==
  <<"a","p","p",".","u","s","e","(","'","/","a","p","i","/","g","l","o",
    "b","a","l","-","q","u","e","r","y","'",","," ","r","e","q","u","i",
    "r","e","(","'",".","/","r","o","u","t","e","s","/","g","l","o","b",
    "a","l","Q","u","e","r","y","'",")",")",";">>

\* the lines of a text without their indentation
RECURSIVE Unindent(_)
Unindent(line) ==
  IF line # <<>> /\ Head(line) \in SpaceChars THEN Unindent(Tail(line)) ELSE line

UnindentedLines(text) == {Unindent(line) : line \in Range(SplitLines(text))}

\* what holds of C20 in the splice: an app.js with the comment of the
\* routes that does not mention globalQuery has the line of the route
\* exactly once after the splice, its app.use lines are still there (up to
\* their indentation), and a second splice changes nothing
SpliceOnceAndKept ==
  /\ splices > 0
  /\ Includes(appBefore, RutasComment)
  /\ ~Includes(appBefore, <<"g","l","o","b","a","l","Q","u","e","r","y">>)
  => /\ Cardinality({k \in 1..Len(SplitLines(appContent)) :
                       SplitLines(appContent)[k] = GlobalQueryLine}) = 1
     /\ \A line \in UnindentedLines(appBefore) :
          Includes(line, AppUse) => line \in UnindentedLines(appContent)
     /\ SpliceGlobalQuery(appContent) = appContent

\* the same with the indentation; it does not hold: the first app.use line
\* after the comment loses its indentation, which stays behind on a line
\* that is app.use alone
SpliceKeepsLines ==
  splices > 0
  => \A line \in Range(SplitLines(appBefore)) :
       Includes(line, AppUse) => line \in Range(SplitLines(appContent))

(***************************************************************************)
(* Webhooks (WebhookSpec)                                                  *)
(***************************************************************************)
\* the line that registers the webhook of a service in app.js
WebhookRoute(webhookConfig) ==
  <<"a","p","p",".","u","s","e","(","'","/","a","p","i","/","w","e","b","h","o","o","k","s",
      "/">> \o ToLowerCase(webhookConfig.serviceName)
    \o <<"'",","," ","r","e","q","u","i","r","e","(","'",".","/","r","o","u","t","e","s","/",
        "w","e","b","h","o","o","k","s","/">> \o ToLowerCase(webhookConfig.serviceName)
    \o <<"W","e","b","h","o","o","k","'",")",")",";">>

\* C21: once generateWebhook has completed for a service on a project whose
\* app.js has the comment of the routes, app.js has the line that registers
\* the webhook of this service, whatever webhooks were generated before
C21_WebhookCrossWiring ==
  Includes(appBefore, RutasComment)
  => \A k \in 1..Len(webhooks) :
       webhooks[k].outcome = "returns"
         => WebhookRoute(webhooks[k].webhookConfig) \in Range(SplitLines(appContent))

\* what holds of C21: the same for the webhook generated first, when app.js
\* did not mention webhooks
FirstWebhookRegistered ==
  /\ Includes(appBefore, RutasComment)
  /\ ~Includes(appBefore, <<"w","e","b","h","o","o","k","s">>)
  => \A k \in 1..Len(webhooks) :
       /\ webhooks[k].outcome = "returns"
       /\ \A j \in 1..(k - 1) : webhooks[j].outcome = "throws"
       => WebhookRoute(webhooks[k].webhookConfig) \in Range(SplitLines(appContent))

\* C22: running the two splices again with the same configuration leaves
\* app.js and .env.example as they are after the first run, and the secret
\* is appended to .env.example only if its name did not occur in the file
C22_WebhookSplicesIdempotent ==
  \A k \in 1..Len(webhooks) :
    webhooks[k].outcome = "returns"
    => LET webhookConfig == webhooks[k].webhookConfig
           app1 == _updateAppWithWebhook(webhooks[k].app, webhookConfig)
           env1 == _updateEnvWithWebhook(webhooks[k].env, webhookConfig)
       IN
       /\ _updateAppWithWebhook(app1, webhookConfig) = app1
       /\ _updateEnvWithWebhook(env1, webhookConfig) = env1
       /\ k = Len(webhooks) => appContent = app1 /\ envFile = env1
       /\ env1 # webhooks[k].env
            => ~Includes(webhooks[k].env.content, WebhookSecret(webhookConfig))

\* a webhook was generated for a service whose secret .env.example did not
\* name, and both files changed
C22_Witness ==
  /\ webhooks # <<>>
  /\ webhooks[Len(webhooks)].outcome = "returns"
  /\ webhooks[Len(webhooks)].env.exists
  /\ envFile # webhooks[Len(webhooks)].env
  /\ appContent # webhooks[Len(webhooks)].app

(***************************************************************************)
(* Saved designs (ConfigSpec)                                              *)
(***************************************************************************)
\* the value of a property of an object, undefined when it has none
Property(object, key) == IF key \in DOMAIN object THEN object[key] ELSE Undefined

\* two architectures have the same folders and the same files, property by
\* property
SameArchitecture(a, b) ==
  /\ a.folders = b.folders
  /\ Len(a.files) = Len(b.files)
  /\ \A k \in 1..Len(a.files) :
       \A key \in {"path", "useTemplate", "templateType"} :
         Property(a.files[k], key) = Property(b.files[k], key)

\* a loaded configuration is the one that was handed to a save
SameConfiguration(loaded, given) ==
  /\ loaded.name = given.name
  /\ loaded.description = given.description
  /\ \A key \in DOMAIN loaded.options \cup DOMAIN given.options :
       Property(loaded.options, key) = Property(given.options, key)
  /\ SameArchitecture(loaded.architecture, given.architecture)

\* C23: saveProjectConfiguration is refused, with success = false and the
\* stored record unchanged, when the file of the name exists; otherwise
\* it writes the record, and loadProjectConfiguration returns its name,
\* description, options and architecture; the stored record of a name is
\* the one its first save wrote
C23_SaveRefusedIfExists ==
  /\ [][ config'.n = config.n + 1
         => LET projectName == config'.given.name IN
            /\ projectName \in DOMAIN savedProjects
                 => ~config'.returned.success /\ savedProjects' = savedProjects
            /\ projectName \notin DOMAIN savedProjects
                 => /\ config'.returned.success
                    /\ projectName \in DOMAIN savedProjects'
                    /\ SameConfiguration(savedProjects'[projectName], config'.given) ]_vars
  /\ [][ \A projectName \in DOMAIN savedProjects :
           /\ projectName \in DOMAIN savedProjects'
           /\ savedProjects'[projectName] = savedProjects[projectName] ]_vars
  /\ [] ( config.loaded # NoObject /\ config.returned.success
          => SameConfiguration(config.loaded, config.given) )

\* a save was refused and the load of its name returned the design of the
\* first save, which is another one
C23_Witness ==
  /\ config.n > 1
  /\ ~config.returned.success
  /\ config.loaded # NoObject
  /\ ~SameArchitecture(config.loaded.architecture, config.given.architecture)

(***************************************************************************)
(* Recovery states of another schema (ResumeSpec)                          *)
(***************************************************************************)
\* a .recovery.json that does not parse, or lacks the architecture or the
\* counter
InvalidRecovery(file) ==
  /\ file # NoObject
  /\ \/ file = Unreadable
     \/ "architecture" \notin DOMAIN file
     \/ "fileCounter" \notin DOMAIN file

\* C24: a run that finds an invalid .recovery.json goes on like a fresh
\* run: no architecture yet, fileCounter 0, generatedFiles empty, and every
\* category starts at index 0
C24_InvalidRecoveryDiscarded ==
  /\ [][ pc = "resume_check" /\ InvalidRecovery(recoveryFile) /\ pc' = "acquire"
         => /\ architecture' = NoObject
            /\ fileCounter' = 0
            /\ generatedFiles' = <<>> ]_vars
  /\ [][ InvalidRecovery(recoveryState) /\ starts' # starts /\ starts' # <<>>
         => starts' = <<0, 0, 0, 0, 0>> ]_vars

\* an unreadable .recovery.json is discarded
UnreadableRecoveryDiscarded ==
  [][ pc = "resume_check" /\ recoveryFile = Unreadable /\ pc' = "acquire"
      => /\ architecture' = NoObject
         /\ fileCounter' = 0
         /\ generatedFiles' = <<>>
         /\ ~continueGeneration' ]_vars

(***************************************************************************)
(* The phase of the recovery state (Spec)                                  *)
(***************************************************************************)
\* a run resumed from a state of phase files_generated attempts no file
FilesGeneratedSkipsFiles ==
  (continueGeneration /\ recoveryState.phase = "files_generated") =>
    /\ attempts = <<>>
    /\ pc \notin {"generate", "checkpoint", "file_error"}

\* C25: the phase of the recovery state determines where a resumed run
\* jumps in: from files_generated no file of the architecture is generated
\* again, from generating_files the generation goes on after the recorded
\* position
C25_PhaseDeterminesJump ==
  /\ FilesGeneratedSkipsFiles
  /\ (Planned /\ continueGeneration /\ recoveryState.phase = "generating_files") =>
       \A a \in 1..Len(attempts) :
         \/ attempts[a][1] > RecordedCategory(recoveryState)
         \/ /\ attempts[a][1] = RecordedCategory(recoveryState)
            /\ attempts[a][2] > recoveryState.currentCategoryIndex

(***************************************************************************)
(* The paused run (Spec)                                                   *)
(***************************************************************************)
\* the run was paused by the failure of a file with continueOnError false
Paused ==
  /\ pc \notin {"idle", "returned", "killed"}
  /\ ~success
  /\ error # Null
  /\ ~options.continueOnError

\* C26: a paused run generates and saves no diagram, writes no diagram.json
\* and creates no ZIP archive before it returns
C26_PausedIsTerminal ==
  [][ Paused => /\ diagram' = diagram
                /\ repository' = repository
                /\ diagramJson' = diagramJson
                /\ zipFile' = zipFile
                /\ zipPath' = zipPath ]_vars

(***************************************************************************)
(* The entity files of the repairer (ClientSpec)                           *)
(***************************************************************************)
\* validateArchitecture returned with the files of the entities appended
EntitiesAppended ==
  /\ call # NoObject
  /\ call.op = "validateArchitecture"
  /\ ~call.transport
  /\ call.input.entities # <<>>
  /\ call.output.files # call.input.architecture.files

\* the name context.models is to hold for an entity
PascalCase(entity) ==
  ToUpperCase(SubSeq(entity, 1, 1)) \o ToLowerCase(SubSeq(entity, 2, Len(entity)))

\* C27: the three files the repairer appends for an entity are classified
\* with their role: the model file is in context.models under the name of
\* the entity and in the models category, the controller file in the
\* controllers category, the route file in the routes category and in
\* context.routes
C27_EntityFilesClassified ==
  EntitiesAppended =>
    LET arch == call.output IN
    \A e \in Range(call.input.entities) :
      \A k \in (Len(call.input.architecture.files) + 1)..Len(arch.files) :
        /\ arch.files[k] = EntityFiles(e)[1]
             => /\ k \in Range(modelFilesToCreate(arch))
                /\ \E m \in Range(contextModels(arch)) :
                     m.path = arch.files[k].path /\ m.name = PascalCase(e)
        /\ arch.files[k] = EntityFiles(e)[2] => k \in Range(controllerFiles(arch))
        /\ arch.files[k] = EntityFiles(e)[3]
             => /\ k \in Range(routeFiles(arch))
                /\ \E r \in Range(contextRoutes(arch)) :
                     r.file = basenameJs(arch.files[k].path)

\* the paths of the files of an architecture are pairwise different
UniquePaths(arch) ==
  \A a, b \in 1..Len(arch.files) : a # b => arch.files[a].path # arch.files[b].path

\* C28: validateArchitecture returns an architecture with unique file paths
\* when the paths of its input are unique
C28_PathsStayUnique ==
  (call # NoObject /\ call.op = "validateArchitecture"
     /\ UniquePaths(call.input.architecture))
  => UniquePaths(call.output)

(***************************************************************************)
(* Template or oracle (BackendSpec)                                        *)
(***************************************************************************)
\* the file is of a kind the template engine has a template for
KnownTemplateKind(file) ==
  \/ /\ _getFileTypeFromPath(file.path) \in {"model", "controller", "route"}
     /\ ToLowerCase(extname(basename(file.path))) = DotJs
  \/ basename(file.path) = AppJs
  \/ basename(file.path) = GlobalQueryJs

\* C29: a file is rendered through the template engine only if the
\* useTemplates option is not false, file.useTemplate is true and the file
\* is of a known template kind; every other file is requested from the
\* oracle
C29_StrategySelection ==
  dispatched.n > 0 =>
    ( dispatched.branch # "oracle"
      <=> /\ useTemplates(dispatched.options)
          /\ dispatched.file.useTemplate
          /\ KnownTemplateKind(dispatched.file) )

\* what holds of generateBackend: the branch depends on the path alone
BranchByPathOnly ==
  dispatched.n > 0 =>
    (dispatched.branch # "oracle" <=> KnownTemplateKind(dispatched.file))

(***************************************************************************)
(* The diagram of an architecture (DrawSpec)                               *)
(***************************************************************************)
\* the ids of the nodes, edges and groups of a diagram, in order
DiagramIds(d) ==
  [k \in 1..Len(d.nodes) |-> d.nodes[k].id]
    \o [k \in 1..Len(d.edges) |-> d.edges[k].id]
    \o [k \in 1..Len(d.groups) |-> d.groups[k].id]

\* ids are pairwise distinct and every edge joins two nodes
WellFormedDiagram(d) ==
  /\ \A a, b \in 1..Len(DiagramIds(d)) : a # b => DiagramIds(d)[a] # DiagramIds(d)[b]
  /\ \A e \in Range(d.edges) :
       /\ \E n \in Range(d.nodes) : n.id = e.source
       /\ \E n \in Range(d.nodes) : n.id = e.target

\* C30: generateDiagram returns one group per folder and one node per file
\* of the architecture, with pairwise distinct ids and the ends of every
\* edge among the nodes
C30_OneNodePerFile ==
  drawn.n > 0 =>
    /\ Len(drawn.diagram.groups) = Len(drawn.architecture.folders)
    /\ \A k \in 1..Len(drawn.architecture.folders) :
         drawn.diagram.groups[k].label = drawn.architecture.folders[k].path
    /\ Len(drawn.diagram.nodes) = Len(drawn.architecture.files)
    /\ \A file \in Range(drawn.architecture.files) :
         \E n \in Range(drawn.diagram.nodes) : n.label = basename(file.path)
    /\ WellFormedDiagram(drawn.diagram)

\* what holds of C30: the groups are the folders, the ids are distinct, the
\* edges join nodes
GroupsAndIds ==
  drawn.n > 0 =>
    /\ Len(drawn.diagram.groups) = Len(drawn.architecture.folders)
    /\ WellFormedDiagram(drawn.diagram)

\* the number of nodes is the number of files when no folder lies inside
\* another and no two files have one basename
NodesOfFlatArchitecture ==
  ( /\ drawn.n > 0
    /\ \A a, b \in 1..Len(drawn.architecture.folders) :
         a # b => ~StartsWith(drawn.architecture.folders[b].path,
                              drawn.architecture.folders[a].path \o <<"/">>)
    /\ \A a, b \in 1..Len(drawn.architecture.files) :
         a # b => basename(drawn.architecture.files[a].path)
                    # basename(drawn.architecture.files[b].path) )
  => Len(drawn.diagram.nodes) = Len(drawn.architecture.files)

(***************************************************************************)
(* The default architecture (DefaultSpec)                                  *)
(***************************************************************************)
\* the five keywords, in the order of the entity sets of ProjectTypes
KindKeywords == << <<"e","c","o","m","m","e","r","c","e">>, <<"b","l","o","g">>, <<"c","m",
    "s">>, <<"b","o","o","k","i","n","g">>, <<"i","n","v","e","n","t","o","r","y">> >>

\* the architecture has the model, the controller and the route of an entity
HasEntityTriple(arch, entity) ==
  \A k \in 1..3 : \E f \in Range(arch.files) : f = DefaultEntityFiles(entity)[k]

\* the default architecture was taken
DefaultTaken == pc = "architecture_ready" /\ "architecture" \in runFaults

\* C31: the default architecture of a description that contains one of the
\* keywords ecommerce, blog, cms, booking, inventory has the model, the
\* controller and the route of every entity of the keyword's set; that of a
\* description with none of them has the triple of the generic item
C31_DefaultArchitectureByKeyword ==
  DefaultTaken =>
    /\ \A k \in 1..5 :
         Includes(ToLowerCase(description), KindKeywords[k])
           => \A e \in Range(ProjectTypes[k].entities) : HasEntityTriple(architecture, e)
    /\ (\A k \in 1..5 : ~Includes(ToLowerCase(description), KindKeywords[k]))
           => HasEntityTriple(architecture, ItemEntity)

\* what holds: the entities are those of the first type of ProjectTypes one
\* of whose keywords the description contains
DefaultArchitectureByFirstType ==
  DefaultTaken =>
    IF _detectProjectType(description) = NoObject
      THEN HasEntityTriple(architecture, ItemEntity)
      ELSE \A e \in Range(_detectProjectType(description).entities) :
             HasEntityTriple(architecture, e)

(***************************************************************************)
(* The code inside a fenced reply (CleanerSpec)                            *)
(***************************************************************************)
\* C32: of a reply that is an opening fence line with a language tag, code
\* lines each ended by a newline and a closing fence, generateCode returns
\* the code lines with their newlines, that of the last line included
C32_FenceStrippingKeepsCode ==
  \A body \in CodeBodies :
    (cleaned # Null /\ content = Fenced(body)) => cleaned = body

\* what holds: the newline before the closing fence goes with the fence
FenceStrippingDropsLastNewline ==
  \A body \in CodeBodies :
    (cleaned # Null /\ content = Fenced(body))
      => cleaned = SubSeq(body, 1, Len(body) - 1)

(***************************************************************************)
(* The marker of the templates (WrapSpec)                                  *)
(***************************************************************************)
\* text with the first occurrence of marker replaced by fragment as it is
FirstReplaced(text, marker, fragment) ==
  IF \E k \in 1..Len(text) : At(text, k, marker)
    THEN LET k == CHOOSE k \in 1..Len(text) :
                    At(text, k, marker) /\ \A h \in 1..(k - 1) : ~At(text, h, marker)
         IN SubSeq(text, 1, k - 1) \o fragment \o SubSeq(text, k + Len(marker), Len(text))
    ELSE text

\* C33: a wrapper returns the rendered template with the first marker
\* replaced by the fragment of the oracle, the rendered template itself
\* when it has no marker, and does not fail when the fragment request
\* fails: a comment stands for the fragment
C33_MarkerReplacedByFragment ==
  (wrapped.n > 0 /\ wrapped.template) =>
    /\ wrapped.outcome = "returns"
    /\ wrapped.result =
         FirstReplaced(wrapped.processedTemplate, IaGeneratedCode,
                       IF wrapped.failed THEN NoAdditionalCode ELSE wrapped.code)

\* what holds: the claim for the fragments without a dollar sign
FragmentWithoutDollar ==
  (wrapped.n > 0 /\ wrapped.template /\ \A k \in 1..Len(wrapped.code) : wrapped.code[k] # "$")
  => /\ wrapped.outcome = "returns"
     /\ wrapped.result =
          FirstReplaced(wrapped.processedTemplate, IaGeneratedCode,
                        IF wrapped.failed THEN NoAdditionalCode ELSE wrapped.code)

(***************************************************************************)
(* Regeneration of a stored design (RegenerateSpec)                        *)
(***************************************************************************)
\* C34: a regeneration writes the files of the architecture of the stored
\* record and requests no architecture, and two regenerations from one
\* record write the same set of paths
C34_StoredArchitectureReused ==
  /\ \A k \in 1..Len(regenerations) :
       regenerations[k].outcome = "returns"
         => /\ ~regenerations[k].requested
            /\ \A f \in Range(regenerations[k].stored.files) :
                 f.path \in regenerations[k].files
  /\ \A j, k \in 1..Len(regenerations) :
       ( /\ regenerations[j].op = regenerations[k].op
         /\ regenerations[j].outcome = "returns"
         /\ regenerations[k].outcome = "returns" )
       => regenerations[j].files = regenerations[k].files

\* two regenerations from one record wrote different sets of paths
RegenerationsDiffer ==
  \E j, k \in 1..Len(regenerations) :
    /\ regenerations[j].op = regenerations[k].op
    /\ regenerations[j].outcome = "returns"
    /\ regenerations[k].outcome = "returns"
    /\ regenerations[j].files # regenerations[k].files

(***************************************************************************)
(* The phases written to the recovery file (Spec)                          *)
(***************************************************************************)
PhaseRank(phase) ==
  CASE phase = "architecture_ready" -> 1
    [] phase = "models_analyzed" -> 2
    [] phase = "generating_files" -> 3
    [] phase = "files_generated" -> 4

\* C35: within one run the phases written to the recovery file are
\* architecture_ready, models_analyzed, generating_files (any number of
\* times) and files_generated, in this order; each is written after what it
\* names: the architecture is there, a file was attempted, every category
\* was walked with success still true
C35_PhasesInOrder ==
  [][ (recoveryFile' # recoveryFile /\ recoveryFile' # NoObject) =>
        IF pc = "architecture_ready"
          THEN /\ recoveryFile'.phase = "architecture_ready"
               /\ architecture # NoObject
          ELSE /\ recoveryFile # NoObject
               /\ PhaseRank(recoveryFile'.phase) >= PhaseRank(recoveryFile.phase)
               /\ recoveryFile'.phase # "architecture_ready"
               /\ recoveryFile'.phase = "models_analyzed"
                    => recoveryFile.phase = "architecture_ready"
               /\ recoveryFile'.phase = "generating_files"
                    => /\ attempts # <<>>
                       /\ recoveryFile.phase \in {"models_analyzed", "generating_files"}
               /\ recoveryFile'.phase = "files_generated"
                    => /\ success
                       /\ cat = 6
                       /\ recoveryFile.phase \in {"models_analyzed", "generating_files"} ]_vars

\* a run wrote files_generated after the files of two categories
C35_Witness ==
  /\ pc = "diagram"
  /\ recoveryFile # NoObject
  /\ recoveryFile.phase = "files_generated"
  /\ Cardinality({attempts[a][1] : a \in 1..Len(attempts)}) >= 2

(***************************************************************************)
(* generateCode for paths that are not cacheable (ClientSpec)              *)
(***************************************************************************)
\* C36: a generateCode call for a path _isCacheable rejects issues an LLM
\* request and returns the sanitized reply or throws; a generateCode call
\* that throws leaves the cache as it was
C36_NotCacheableNeverFromCache ==
  [][ call' # call /\ call'.op = "generateCode"
      => /\ ~_isCacheable(call'.input.filePath)
            => /\ requests' = requests + 1
               /\ call'.outcome = "returns"
                    => \E reply \in CodeReplies :
                         call'.output = _cleanMarkdownDelimiters(Trim(reply))
         /\ call'.outcome = "throws" => codeCache' = codeCache ]_vars

\* what holds of C36: a path that is not cacheable is answered by a request
\* unless its key is the key of a stored path; a call that throws leaves the
\* cache as it was
NotCacheableUnlessKeyStored ==
  [][ call' # call /\ call'.op = "generateCode"
      => /\ /\ ~_isCacheable(call'.input.filePath)
            /\ _getCacheKey(call'.input.filePath, call'.input.context)
                 \notin DOMAIN codeCache
            => requests' = requests + 1
         /\ call'.outcome = "throws" => codeCache' = codeCache ]_vars

ArchiveFailedReturned ==
  /\ pc = "returned"
  /\ "zip" \in runFaults
  /\ result.zipPath = Null

(***************************************************************************)
(* The list generatedFiles (Spec)                                          *)
(***************************************************************************)
NoPathTwice(list) ==
  \A a, b \in 1..Len(list) : list[a] = list[b] => a = b

\* C38: in every state of a fresh or resumed run generatedFiles holds no
\* path twice and at most totalFiles entries plus one for the globalQuery
\* file, and the list a run returns holds each path once
C38_GeneratedFilesOnce ==
  /\ NoPathTwice(generatedFiles)
  /\ architecture # NoObject
       => Len(generatedFiles) <= Len(architecture.files) + 1
  /\ pc = "returned" => NoPathTwice(result.generatedFiles)

\* what holds of C38: a run that does not continue from a recovery file, on
\* an architecture whose categories share no file, lists no path twice and
\* at most totalFiles + 1 paths
FreshDisjointOnce ==
  /\ ~continueGeneration
  /\ architecture # NoObject
  /\ categories # <<>>
  /\ \A c, d \in 1..Len(categories) :
       c # d => \A a \in 1..Len(categories[c]), b \in 1..Len(categories[d]) :
                  categories[c][a] # categories[d][b]
  /\ NoPathTwice([f \in 1..Len(architecture.files) |-> architecture.files[f].path])
  => /\ NoPathTwice(generatedFiles)
     /\ Len(generatedFiles) <= Len(architecture.files) + 1

(***************************************************************************)
(* Termination of generateCompleteProject (LiveSpec)                       *)
(***************************************************************************)
\* a step of the run in progress: the continuation of an awaited call that
\* has returned or failed
RunStep ==
  /\ pc \notin {"idle", "returned", "killed"}
  /\ Next
  /\ pc' # "killed"

\* every awaited collaborator call returns or fails, so the continuation
\* that follows it runs; nothing obliges a new invocation or a kill
LiveInit ==
  /\ description = <<"U","n"," ","B","l","o","g">>
  /\ options \in OptionSets
  /\ PipelineInit
  /\ ClientInit
  /\ CleanerIdle
  /\ DiagramsInit
  /\ SplicerIdle

LiveSpec == LiveInit /\ [][Next]_vars /\ WF_vars(RunStep)

\* C39: every invocation whose collaborator calls all return or fail comes
\* to its return unless the process is killed, and no run attempts a file
\* of a category twice
C39_Termination ==
  /\ [] NoPathTwice(attempts)
  /\ [] (\A a \in 1..Len(attempts) :
           /\ attempts[a][1] \in 1..Len(categories)
           /\ attempts[a][2] < Len(categories[attempts[a][1]]))
  /\ pc \notin {"idle", "returned", "killed"} ~> pc \in {"returned", "killed"}

\* a run in which two collaborators failed has attempted two files and
\* returned
C39_Witness ==
  /\ pc = "returned"
  /\ runFaults # {}
  /\ Len(attempts) >= 2

====
